---------------------------- MODULE Spec2Model ----------------------------
(***************************************************************************)
(* A model of the article ingestion-and-analysis backend:                  *)
(*   app/utils/security.py        SecurityValidator (validate / sanitize)  *)
(*   app/utils/text_processor.py  summary, keywords, key phrases           *)
(*   app/utils/data_formatter.py  validate_article_data, create_n8n_payload*)
(*   app/routes/main.py           the process-article request handler      *)
(*                                                                         *)
(* Python str values are TLA+ strings; a character is a string of length 1.*)
(***************************************************************************)
EXTENDS Integers, Sequences, FiniteSets, TLC

(***************************************************************************)
(* Characters and the str methods the code uses                            *)
(***************************************************************************)
Ch(s, i) == SubSeq(s, i, i)

CharsOf(s) == {Ch(s, i) : i \in 1..Len(s)}

LOWER == "abcdefghijklmnopqrstuvwxyz"

UPPER == "ABCDEFGHIJKLMNOPQRSTUVWXYZ"

DIGITS == "0123456789"

LowerSet == CharsOf(LOWER)

UpperSet == CharsOf(UPPER)

DigitSet == CharsOf(DIGITS)

LetterSet == LowerSet \cup UpperSet

\* \w of the re module, on ASCII text
WordSet == LetterSet \cup DigitSet \cup {"_"}

\* str.isspace / \s, on ASCII text
SpaceSet == {" ", "\t", "\n", "\r", "\f"}

\* The backquote character (a backquote cannot be written alone in a string)
BQ == SubSeq("`'", 1, 1)

\* Stands for the NUL character '\x00', which cannot be written in a string
\* here; like NUL it is neither whitespace nor a word character, and the
\* texts of the model never hold a real tilde
NUL == "~"

ToLowerCh == [c \in UpperSet |-> Ch(LOWER, CHOOSE i \in 1..Len(UPPER) : Ch(UPPER, i) = c)]

LowerCh(c) == IF c \in UpperSet THEN ToLowerCh[c] ELSE c

Min(S) == CHOOSE x \in S : \A y \in S : x <= y

Max(S) == CHOOSE x \in S : \A y \in S : x >= y

RECURSIVE CatRange(_, _, _, _)
\* f[lo] \o ... \o f[hi], by halves (empty is "" or << >>)
CatRange(f, lo, hi, empty) ==
    IF lo > hi THEN empty
    ELSE IF lo = hi THEN f[lo]
    ELSE LET mid == (lo + hi) \div 2
         IN  CatRange(f, lo, mid, empty) \o CatRange(f, mid + 1, hi, empty)

\* ''.join(f), f a sequence of strings
Concat(f) == CatRange(f, 1, Len(f), "")

\* the concatenation of a sequence of sequences
Flatten(f) == CatRange(f, 1, Len(f), <<>>)

RECURSIVE LowerFrom(_, _)
\* s from position i on, its upper-case letters made lower case
LowerFrom(s, i) ==
    LET upper == {j \in i..Len(s) : Ch(s, j) \in UpperSet}
    IN  IF upper = {} THEN SubSeq(s, i, Len(s))
        ELSE SubSeq(s, i, Min(upper) - 1) \o LowerCh(Ch(s, Min(upper)))
             \o LowerFrom(s, Min(upper) + 1)

\* str.lower()
Lower(s) == LowerFrom(s, 1)

\* The first position from i on, and the last position up to i, that holds
\* no white space (Len(s) + 1 and 0 when there is none)
RECURSIVE SkipSpaces(_, _)
SkipSpaces(s, i) ==
    IF i > Len(s) \/ Ch(s, i) \notin SpaceSet THEN i ELSE SkipSpaces(s, i + 1)

RECURSIVE SkipSpacesBack(_, _)
SkipSpacesBack(s, i) ==
    IF i < 1 \/ Ch(s, i) \notin SpaceSet THEN i ELSE SkipSpacesBack(s, i - 1)

\* str.strip()
Strip(s) ==
    IF SkipSpaces(s, 1) > Len(s) THEN ""
    ELSE SubSeq(s, SkipSpaces(s, 1), SkipSpacesBack(s, Len(s)))

\* s[:n], n >= 0
Truncate(s, n) == IF Len(s) <= n THEN s ELSE SubSeq(s, 1, n)

\* whether string t occurs in s at position i
StartsAt(s, i, t) == i + Len(t) - 1 <= Len(s) /\ SubSeq(s, i, i + Len(t) - 1) = t

\* t in s
Contains(s, t) == \E i \in 1..(Len(s) - Len(t) + 1) : StartsAt(s, i, t)

RECURSIVE ReplaceFrom(_, _, _, _)
ReplaceFrom(s, i, old, new) ==
    LET at == {j \in i..Len(s) : StartsAt(s, j, old)}
    IN  IF at = {} THEN SubSeq(s, i, Len(s))
        ELSE SubSeq(s, i, Min(at) - 1) \o new \o ReplaceFrom(s, Min(at) + Len(old), old, new)

\* str.replace(old, new), old non-empty: the leftmost non-overlapping occurrences
Replace(s, old, new) == ReplaceFrom(s, 1, old, new)

\* The maximal runs of characters of s that are not in seps, in order
Runs(s, seps) ==
    LET in(i) == i >= 1 /\ i <= Len(s) /\ Ch(s, i) \notin seps
        run(i) == SubSeq(s, i, Min({j \in i..Len(s) : ~in(j + 1)}))
    IN  Flatten([i \in 1..Len(s) |-> IF in(i) /\ ~in(i - 1) THEN <<run(i)>> ELSE <<>>])

\* str.split(): the maximal runs of non-whitespace characters
Split(s) == Runs(s, SpaceSet)

RECURSIVE JoinFrom(_, _, _, _)
JoinFrom(seq, lo, hi, sep) ==
    IF lo > hi THEN ""
    ELSE IF lo = hi THEN seq[lo]
    ELSE LET mid == (lo + hi) \div 2
         IN  JoinFrom(seq, lo, mid, sep) \o sep \o JoinFrom(seq, mid + 1, hi, sep)

\* sep.join(seq)
Join(seq, sep) == JoinFrom(seq, 1, Len(seq), sep)

\* len(re.findall('[...]', s)) for a one-character class
CountChars(s, set) == Cardinality({i \in 1..Len(s) : Ch(s, i) \in set})

Range(seq) == {seq[i] : i \in 1..Len(seq)}

\* The sequence [i \in 1..n |-> e] as a tuple: its elements are computed once
Tuple(f) == f \o <<>>

NoDuplicates(seq) == \A i, j \in 1..Len(seq) : i # j => seq[i] # seq[j]

(***************************************************************************)
(* Regular expressions.  Every pattern of the code is a plain sequence of  *)
(* items (no groups, no alternation), an item being a literal string or a  *)
(* character class with a quantifier: [k: kind, v: the literal or the      *)
(* class's character, q: quantifier].  Matching is the re module's         *)
(* backtracking search: the first match in priority order, which for a     *)
(* greedy item is the longest repetition that lets the rest match and for  *)
(* a lazy one the shortest.  All patterns are used with re.IGNORECASE:     *)
(* they are matched against the lower-cased text, literals lower-cased.    *)
(***************************************************************************)
Item(kind, v, q) == <<[k |-> kind, v |-> v, q |-> q]>>

Lit(s) == Item("lit", Lower(s), "1")

\* [\s\S]* and [\s\S]*?
AnyStar == Item("any", "", "*")

AnyLazy == Item("any", "", "*?")

\* \s* , \s+ , \s , \w+
SpStar == Item("s", "", "*")

SpPlus == Item("s", "", "+")

Sp == Item("s", "", "1")

WordPlus == Item("w", "", "+")

\* [^c]* and [^c]+
NotStar(c) == Item("not", c, "*")

NotPlus(c) == Item("not", c, "+")

ClassHas(it, c) ==
    CASE it.k = "any" -> TRUE
      [] it.k = "s"   -> c \in SpaceSet
      [] it.k = "w"   -> c \in WordSet
      [] it.k = "not" -> c # it.v

\* how many characters of s from position i on are in the class of item it
RunLen(it, s, i) ==
    IF it.k = "any" THEN Len(s) - i + 1
    ELSE LET out == {j \in i..Len(s) : ~ClassHas(it, Ch(s, j))}
         IN  IF out = {} THEN Len(s) - i + 1 ELSE Min(out) - i

RECURSIVE MatchEnd(_, _, _, _)
\* The position after the match of items k.. of pattern p at position i of
\* the lower-cased text s, 0 when there is none.
MatchEnd(p, k, s, i) ==
    IF k > Len(p) THEN i
    ELSE LET it == p[k]
             least == IF it.q = "+" THEN 1 ELSE 0
             \* the repetition counts with which the rest of the pattern matches
             ok == {n \in least..RunLen(it, s, i) : MatchEnd(p, k + 1, s, i + n) # 0}
         IN  IF it.k = "lit"
             THEN (IF StartsAt(s, i, it.v) THEN MatchEnd(p, k + 1, s, i + Len(it.v)) ELSE 0)
             ELSE IF it.q = "1"
             THEN (IF i <= Len(s) /\ ClassHas(it, Ch(s, i)) THEN MatchEnd(p, k + 1, s, i + 1) ELSE 0)
             ELSE IF ok = {} THEN 0
             ELSE IF it.q = "*?" THEN MatchEnd(p, k + 1, s, i + Min(ok))
             ELSE MatchEnd(p, k + 1, s, i + Max(ok))

\* Whether p matches somewhere in the lower-cased subject ls
Found(p, ls) == \E i \in 1..Len(ls) : MatchEnd(p, 1, ls, i) # 0

\* re.search(p, s, re.IGNORECASE) is not None
Search(p, s) == Found(p, Lower(s))

RECURSIVE SubFrom(_, _, _, _)
\* e[j] is the end of the match at j (0: none); the text from position i on
\* with the leftmost non-overlapping matches replaced
SubFrom(s, e, i, repl) ==
    LET at == {j \in i..Len(s) : e[j] # 0}
    IN  IF at = {} THEN SubSeq(s, i, Len(s))
        ELSE SubSeq(s, i, Min(at) - 1) \o repl \o SubFrom(s, e, e[Min(at)], repl)

\* re.sub(p, repl, s, flags=re.IGNORECASE) (no pattern of the code matches
\* the empty string)
Sub(p, s, repl) ==
    LET ls == Lower(s)
        e == Tuple([j \in 1..Len(s) |-> MatchEnd(p, 1, ls, j)])
    IN  SubFrom(s, e, 1, repl)

(***************************************************************************)
(* security.py: SecurityValidator                                          *)
(***************************************************************************)
MAX_DOMAIN_LENGTH == 255

MAX_TITLE_LENGTH == 500

MAX_ARTICLE_LENGTH == 1000000

FILTERED == "[FILTERED]"

\* The dangerous-pattern table, in the order of the source
DANGEROUS_PATTERNS == <<
    Lit("<script") \o AnyLazy \o Lit("</script>"),
    Lit("<iframe") \o AnyLazy \o Lit("</iframe>"),
    Lit("javascript:") \o AnyStar,
    Lit("vbscript:") \o AnyStar,
    Lit("on") \o WordPlus \o SpStar \o Lit("=") \o AnyStar,
    Lit("alert") \o SpStar \o Lit("("),
    Lit("eval") \o SpStar \o Lit("("),
    Lit("document."),
    Lit("union") \o SpPlus \o Lit("select") \o AnyStar,
    Lit("drop") \o SpPlus \o Lit("table") \o AnyStar,
    Lit("delete") \o SpPlus \o Lit("from") \o AnyStar,
    Lit("insert") \o SpPlus \o Lit("into") \o AnyStar,
    Lit("update") \o SpPlus \o AnyStar \o SpPlus \o Lit("set"),
    Lit("exec") \o SpStar \o Lit("(") \o AnyStar \o Lit(")"),
    Lit("execute") \o SpStar \o Lit("(") \o AnyStar \o Lit(")"),
    Lit("xp_cmdshell"),
    Lit("|") \o SpStar \o Lit("nc") \o Sp \o AnyStar,
    Lit("|") \o SpStar \o Lit("netcat") \o Sp \o AnyStar,
    Lit(";") \o SpStar \o Lit("rm") \o Sp \o AnyStar,
    Lit(";") \o SpStar \o Lit("curl") \o Sp \o AnyStar,
    Lit(";") \o SpStar \o Lit("wget") \o Sp \o AnyStar,
    Lit(BQ) \o NotStar(BQ) \o Lit(BQ),
    Lit("$(") \o NotStar(")") \o Lit(")"),
    Lit("cat") \o SpPlus \o Lit("/etc/"),
    Lit("../"),
    Lit("..\\"),
    Lit("{{") \o NotStar("}") \o Lit("}}"),
    Lit("{%") \o NotStar("%") \o Lit("%}"),
    Lit("{$") \o NotStar("}") \o Lit("}"),
    Lit("<img") \o AnyLazy \o Lit("onerror") \o AnyLazy \o Lit(">"),
    Lit("<svg") \o AnyLazy \o Lit("onload") \o AnyLazy \o Lit(">"),
    Lit("data:text/html") \o AnyStar,
    Lit("data:image/svg+xml") \o AnyStar >>

SUSPICIOUS_DOMAINS ==
    {"bit.ly", "tinyurl.com", "t.co", "goo.gl", "ow.ly",
     "clickjacking.com", "phishing.com", "malware.com"}

\* any(re.search(pattern, s, re.IGNORECASE) for pattern in DANGEROUS_PATTERNS)
AnyFound(ls) == \E n \in 1..Len(DANGEROUS_PATTERNS) : Found(DANGEROUS_PATTERNS[n], ls)

MatchesDangerous(s) == AnyFound(Lower(s))

\* html.escape(s, quote=True): & first, then < > " '
HtmlEscape(s) ==
    Replace(Replace(Replace(Replace(Replace(s, "&", "&amp;"), "<", "&lt;"), ">", "&gt;"),
                    "\"", "&quot;"), "'", "&#x27;")

\* html.entities.html5, the names of the characters html.escape encodes (the
\* only entity names the texts of the model can spell)
HTML5 == [n \in {"amp;", "amp", "AMP;", "AMP", "lt;", "lt", "LT;", "LT", "gt;", "gt",
                 "GT;", "GT", "quot;", "quot", "QUOT;", "QUOT", "apos;"} |->
            CASE n \in {"amp;", "amp", "AMP;", "AMP"} -> "&"
              [] n \in {"lt;", "lt", "LT;", "LT"} -> "<"
              [] n \in {"gt;", "gt", "GT;", "GT"} -> ">"
              [] n \in {"quot;", "quot", "QUOT;", "QUOT"} -> "\""
              [] n = "apos;" -> "'"]

\* The printable ASCII characters, code points 32..126, for chr()
ASCII == " !\"#$%&'()*+,-./" \o DIGITS \o ":;<=>?@" \o UPPER \o "[\\]^_" \o BQ \o LOWER \o "{|}~"

\* U+FFFD and every other decoded character outside printable ASCII
NONASCII == "?"

HexDigitSet == DigitSet \cup CharsOf("abcdefABCDEF")

HexVal(c) ==
    IF c \in DigitSet THEN CHOOSE d \in 0..9 : Ch(DIGITS, d + 1) = c
    ELSE 9 + (CHOOSE d \in 1..6 : Ch("abcdef", d) = LowerCh(c))

RECURSIVE ParseInt(_, _, _)
\* int(s, base), s a non-empty string of digits of the base
ParseInt(s, base, acc) ==
    IF s = "" THEN acc ELSE ParseInt(Tail(s), base, acc * base + HexVal(Head(s)))

\* chr(num) as html.unescape yields it
CharOfCode(num) ==
    IF num \in 32..126 THEN Ch(ASCII, num - 31)
    ELSE IF num = 9 THEN "\t" ELSE IF num = 10 THEN "\n"
    ELSE IF num = 12 THEN "\f" ELSE IF num = 13 THEN "\r"
    ELSE IF num \in (1..8) \cup {11} \cup (14..31) \cup {127} THEN ""
    ELSE NONASCII

\* the characters a named reference may hold: [^\t\n\f <&#;]
NameChar(c) == c \notin {"\t", "\n", "\f", " ", "<", "&", "#", ";"}

\* the length, at most max, of the run of characters of set from position i
RunOf(s, i, set, max) ==
    LET out == {j \in i..Len(s) : Ch(s, j) \notin set}
        run == IF out = {} THEN Len(s) - i + 1 ELSE Min(out) - i
    IN  IF run < 0 THEN 0 ELSE IF run > max THEN max ELSE run

\* the length, at most max, of the run of name characters from position i
NameRun(s, i, max) ==
    LET out == {j \in i..Len(s) : ~NameChar(Ch(s, j))}
        run == IF out = {} THEN Len(s) - i + 1 ELSE Min(out) - i
    IN  IF run < 0 THEN 0 ELSE IF run > max THEN max ELSE run

\* Where the character reference starting at the & of position i ends (the
\* position after it), 0 when there is none:
\* &(#[0-9]+;?|#[xX][0-9a-fA-F]+;?|[^\t\n\f <&#;]{1,32};?)
CharRefEnd(s, i) ==
    LET semi(j) == IF j <= Len(s) /\ Ch(s, j) = ";" THEN j + 1 ELSE j
        dec == RunOf(s, i + 2, DigitSet, Len(s))
        hex == RunOf(s, i + 3, HexDigitSet, Len(s))
        nam == NameRun(s, i + 1, 32)
    IN  IF i + 1 <= Len(s) /\ Ch(s, i + 1) = "#"
        THEN IF dec > 0 THEN semi(i + 2 + dec)
             ELSE IF i + 2 <= Len(s) /\ Ch(s, i + 2) \in {"x", "X"} /\ hex > 0
                  THEN semi(i + 3 + hex)
                  ELSE 0
        ELSE IF nam > 0 THEN semi(i + 1 + nam) ELSE 0

RECURSIVE LongestPrefix(_, _)
\* the longest proper prefix of g, two characters or more, that names an entity
LongestPrefix(g, x) ==
    IF x < 2 THEN 0
    ELSE IF SubSeq(g, 1, x) \in DOMAIN HTML5 THEN x ELSE LongestPrefix(g, x - 1)

\* html._replace_charref, g the reference without its &
ReplaceCharRef(g) ==
    IF Head(g) = "#"
    THEN LET body == IF Ch(g, Len(g)) = ";" THEN SubSeq(g, 2, Len(g) - 1) ELSE SubSeq(g, 2, Len(g))
         IN  IF Head(body) \in {"x", "X"}
             THEN CharOfCode(ParseInt(Tail(body), 16, 0))
             ELSE CharOfCode(ParseInt(body, 10, 0))
    ELSE IF g \in DOMAIN HTML5 THEN HTML5[g]
    ELSE LET x == LongestPrefix(g, Len(g) - 1)
         IN  IF x = 0 THEN "&" \o g ELSE HTML5[SubSeq(g, 1, x)] \o SubSeq(g, x + 1, Len(g))

RECURSIVE UnescapeFrom(_, _)
\* _charref.sub(_replace_charref, s) from position i on
UnescapeFrom(s, i) ==
    LET at == {j \in i..Len(s) : Ch(s, j) = "&" /\ CharRefEnd(s, j) # 0}
        j == Min(at)
        e == CharRefEnd(s, j)
    IN  IF at = {} THEN SubSeq(s, i, Len(s))
        ELSE SubSeq(s, i, j - 1) \o ReplaceCharRef(SubSeq(s, j + 1, e - 1)) \o UnescapeFrom(s, e)

\* html.unescape(s)
HtmlUnescape(s) == UnescapeFrom(s, 1)

\* re.sub(r'<[^>]+>', '', text)
StripTags(s) == Sub(Lit("<") \o NotPlus(">") \o Lit(">"), s, "")

RECURSIVE FilterFrom(_, _)
\* for pattern in DANGEROUS_PATTERNS: text = re.sub(pattern, '[FILTERED]', text)
FilterFrom(s, n) ==
    IF n > Len(DANGEROUS_PATTERNS) THEN s
    ELSE LET r == Sub(DANGEROUS_PATTERNS[n], s, FILTERED)
         IN  IF Len(r) >= 0 THEN FilterFrom(r, n + 1) ELSE r

\* re.sub(r'\s+', ' ', text).strip()
NormalizeWhitespace(s) == Strip(Sub(SpPlus, s, " "))

\* SecurityValidator.sanitize_text(text, allow_html), text a str
sanitize_text(text, allow_html) ==
    LET t1 == Replace(Replace(text, NUL, ""), "\r\n", "\n")
        t2 == IF allow_html THEN HtmlEscape(t1) ELSE HtmlUnescape(StripTags(t1))
    IN  NormalizeWhitespace(FilterFrom(t2, 1))

\* sanitize_for_processing(text)
sanitize_for_processing(text) == sanitize_text(text, TRUE)

(***************************************************************************)
(* Python values, as far as a decoded JSON body can hold them:             *)
(*   [t |-> "none"], [t |-> "bool", v |-> BOOLEAN], [t |-> "int", v |-> n] *)
(*   [t |-> "str", v |-> string], [t |-> "list", v |-> sequence]           *)
(*   [t |-> "dict", v |-> function from the keys present to values]        *)
(***************************************************************************)
PyNone == [t |-> "none"]

PyBool(b) == [t |-> "bool", v |-> b]

PyInt(n) == [t |-> "int", v |-> n]

PyStr(s) == [t |-> "str", v |-> s]

PyList(q) == [t |-> "list", v |-> q]

PyDict(f) == [t |-> "dict", v |-> f]

\* isinstance(x, str), isinstance(x, dict)
IsStr(x) == x.t = "str"

IsDict(x) == x.t = "dict"

\* bool(x)
Truthy(x) ==
    CASE x.t = "none" -> FALSE
      [] x.t = "bool" -> x.v
      [] x.t = "int"  -> x.v # 0
      [] x.t = "str"  -> x.v # ""
      [] x.t = "list" -> Len(x.v) > 0
      [] x.t = "dict" -> DOMAIN x.v # {}

RECURSIVE IntToStr(_)
\* str(n), n >= 0
IntToStr(n) == IF n < 10 THEN Ch(DIGITS, n + 1) ELSE IntToStr(n \div 10) \o Ch(DIGITS, (n % 10) + 1)

\* str(x) (of lists and dicts, the empty ones)
ToStr(x) ==
    CASE x.t = "none" -> "None"
      [] x.t = "bool" -> (IF x.v THEN "True" ELSE "False")
      [] x.t = "int"  -> IntToStr(x.v)
      [] x.t = "str"  -> x.v
      [] x.t = "list" -> "[]"
      [] x.t = "dict" -> "{}"

\* data.get(key, default), data a dict
Get(data, key, default) == IF key \in DOMAIN data.v THEN data.v[key] ELSE default

\* What a call yields: the returned value, or the exception it raised
Raised(exc) == [raised |-> exc]

IsRaised(r) == "raised" \in DOMAIN r

\* the (is_valid, error_message) tuple of the validators
Ret(ok, error) == [ok |-> ok, error |-> error]

(***************************************************************************)
(* security.py: the validators                                             *)
(***************************************************************************)
AlnumSet == LetterSet \cup DigitSet

\* The parts of s between the dots (empty parts included): s.split('.')
DotParts(s) ==
    LET dots == {i \in 1..Len(s) : Ch(s, i) = "."}
        \* the part that starts at position i
        part(i) == SubSeq(s, i, Min({j \in (dots \cup {Len(s) + 1}) : j >= i}) - 1)
    IN  Flatten([i \in 1..(Len(s) + 1) |->
                    IF i = 1 \/ (i - 1) \in dots THEN <<part(i)>> ELSE <<>>])

\* [a-zA-Z0-9]([a-zA-Z0-9\-]{0,61}[a-zA-Z0-9])?
ValidLabel(l) ==
    /\ Len(l) >= 1 /\ Len(l) <= 63
    /\ \A i \in 1..Len(l) : Ch(l, i) \in AlnumSet \cup {"-"}
    /\ Ch(l, 1) \in AlnumSet /\ Ch(l, Len(l)) \in AlnumSet

\* re.match(domain_pattern, domain): labels joined by single dots, from the
\* first character to the last (the text is stripped, so $ is its end)
DomainFormat(d) == LET parts == DotParts(d) IN \A i \in 1..Len(parts) : ValidLabel(parts[i])

\* The domain checks with a least length of 5 in place of 3
DomainChecksFrom5(d) ==
    IF Len(d) > MAX_DOMAIN_LENGTH
    THEN Ret(FALSE, "Domain too long (max " \o IntToStr(MAX_DOMAIN_LENGTH) \o " characters)")
    ELSE IF Len(d) < 5 THEN Ret(FALSE, "Domain too short")
    ELSE IF ~DomainFormat(d) THEN Ret(FALSE, "Invalid domain format")
    ELSE IF d \in SUSPICIOUS_DOMAINS THEN Ret(FALSE, "Domain appears to be suspicious")
    ELSE IF MatchesDangerous(d) THEN Ret(FALSE, "Domain contains suspicious patterns")
    ELSE Ret(TRUE, "")

\* validate_domain from the length check on, d = domain.lower().strip()
DomainChecks(d) ==
    IF Len(d) > MAX_DOMAIN_LENGTH
    THEN Ret(FALSE, "Domain too long (max " \o IntToStr(MAX_DOMAIN_LENGTH) \o " characters)")
    ELSE IF Len(d) < 3 THEN Ret(FALSE, "Domain too short")
    ELSE IF ~DomainFormat(d) THEN Ret(FALSE, "Invalid domain format")
    ELSE IF d \in SUSPICIOUS_DOMAINS THEN Ret(FALSE, "Domain appears to be suspicious")
    ELSE IF MatchesDangerous(d) THEN Ret(FALSE, "Domain contains suspicious patterns")
    ELSE Ret(TRUE, "")

\* A validate_domain without the isinstance test: domain.lower() raises
\* AttributeError on a value that is not a str
validate_domain_any_type(domain) ==
    IF ~Truthy(domain) THEN Ret(FALSE, "Domain is required")
    ELSE IF ~IsStr(domain) THEN Raised("AttributeError")
    ELSE DomainChecks(Strip(Lower(domain.v)))

\* SecurityValidator.validate_domain(domain)
validate_domain(domain) ==
    IF ~Truthy(domain) \/ ~IsStr(domain) THEN Ret(FALSE, "Domain is required")
    ELSE DomainChecks(Strip(Lower(domain.v)))

\* [<>{}\[\]\\`$]
SuspiciousCharSet == CharsOf("<>{}[]\\$") \cup {BQ}

\* [!@#$%^&*()_+=\[\]{};:"|<>?]
SpecialCharSet == CharsOf("!@#$%^&*()_+=[]{};:\"|<>?")

SpamPhrases ==
    <<"click here", "buy now", "limited time", "act now", "free money",
      "earn money fast", "work from home", "lose weight fast",
      "enlarge your", "nigerian prince", "lottery winner">>

\* max(word_freq.values()), words non-empty
MaxFreq(words) ==
    Max({Cardinality({j \in 1..Len(words) : words[j] = words[i]}) : i \in 1..Len(words)})

\* A spam heuristic whose repetition rule fires from 20% on, not above 20%
detect_spam_patterns_from_20(text) ==
    LET words == Split(Lower(text))
        text_lower == Lower(text)
        spam_count == Cardinality({i \in 1..Len(SpamPhrases) : Contains(text_lower, SpamPhrases[i])})
    IN  IF Len(words) > 20 /\ 5 * MaxFreq(words) >= Len(words) THEN TRUE
        ELSE IF 20 * CountChars(text, SpecialCharSet) > 3 * Len(text) THEN TRUE
        ELSE spam_count >= 2

\* SecurityValidator._detect_spam_patterns(text).  c > n * 0.2 and
\* c > n * 0.15 are, for the integers c and n <= 1000000, 5c > n and 20c > 3n.
detect_spam_patterns(text) ==
    LET words == Split(Lower(text))
        text_lower == Lower(text)
        spam_count == Cardinality({i \in 1..Len(SpamPhrases) : Contains(text_lower, SpamPhrases[i])})
    IN  IF Len(words) > 20 /\ 5 * MaxFreq(words) > Len(words) THEN TRUE
        ELSE IF 20 * CountChars(text, SpecialCharSet) > 3 * Len(text) THEN TRUE
        ELSE spam_count >= 2

\* The content checks with the spam heuristic run ahead of the count of
\* suspicious characters
ContentChecksSpamFirst(c) ==
    IF Len(c) > MAX_ARTICLE_LENGTH
    THEN Ret(FALSE, "Article too long (max " \o IntToStr(MAX_ARTICLE_LENGTH) \o " characters)")
    ELSE IF Len(c) < 50 THEN Ret(FALSE, "Article too short (minimum 50 characters)")
    ELSE IF detect_spam_patterns(c)
    THEN Ret(FALSE, "Content appears to be spam or auto-generated")
    ELSE IF 10 * CountChars(c, SuspiciousCharSet) > Len(c)
    THEN Ret(FALSE, "Content contains too many suspicious characters")
    ELSE IF \E w \in Range(Split(c)) : Len(w) > 100
    THEN Ret(FALSE, "Content contains suspiciously long words")
    ELSE Ret(TRUE, "")

\* validate_article_content from the length check on, c = content.strip().
\* c > n * 0.1 is 10c > n.
ContentChecks(c) ==
    IF Len(c) > MAX_ARTICLE_LENGTH
    THEN Ret(FALSE, "Article too long (max " \o IntToStr(MAX_ARTICLE_LENGTH) \o " characters)")
    ELSE IF Len(c) < 50 THEN Ret(FALSE, "Article too short (minimum 50 characters)")
    ELSE IF 10 * CountChars(c, SuspiciousCharSet) > Len(c)
    THEN Ret(FALSE, "Content contains too many suspicious characters")
    ELSE IF detect_spam_patterns(c)
    THEN Ret(FALSE, "Content appears to be spam or auto-generated")
    ELSE IF \E w \in Range(Split(c)) : Len(w) > 100
    THEN Ret(FALSE, "Content contains suspiciously long words")
    ELSE Ret(TRUE, "")

\* SecurityValidator.validate_article_content(content)
validate_article_content(content) ==
    IF ~Truthy(content) \/ ~IsStr(content) THEN Ret(FALSE, "Article content is required")
    ELSE ContentChecks(Strip(content.v))

\* validate_title from the length check on, t = title.strip()
TitleChecks(t) ==
    IF Len(t) > MAX_TITLE_LENGTH
    THEN Ret(FALSE, "Title too long (max " \o IntToStr(MAX_TITLE_LENGTH) \o " characters)")
    ELSE IF Len(t) < 3 THEN Ret(FALSE, "Title too short (minimum 3 characters)")
    ELSE IF MatchesDangerous(t) THEN Ret(FALSE, "Title contains suspicious patterns")
    ELSE Ret(TRUE, "")

\* SecurityValidator.validate_title(title)
validate_title(title) ==
    IF ~Truthy(title) \/ ~IsStr(title) THEN Ret(FALSE, "Title is required")
    ELSE TitleChecks(Strip(title.v))

\* A sanitize_article_data that keeps the domain as validate_domain reads it,
\* in lower case
sanitize_article_data_lowered(data) ==
    IF ~IsDict(data) THEN PyDict(<<>>)
    ELSE LET field(key, max) == Truncate(sanitize_text(ToStr(Get(data, key, PyStr(""))), FALSE), max)
         IN  PyDict([k \in {"company_domain", "article_title", "article"} |->
                 CASE k = "company_domain" -> PyStr(Lower(field("companyDomain", MAX_DOMAIN_LENGTH)))
                   [] k = "article_title"  -> PyStr(field("articleTitle", MAX_TITLE_LENGTH))
                   [] k = "article"        -> PyStr(field("article", MAX_ARTICLE_LENGTH))])

\* SecurityValidator.sanitize_article_data(data): a new dict
sanitize_article_data(data) ==
    IF ~IsDict(data) THEN PyDict(<<>>)
    ELSE LET field(key, max) == Truncate(sanitize_text(ToStr(Get(data, key, PyStr(""))), FALSE), max)
         IN  PyDict([k \in {"company_domain", "article_title", "article"} |->
                 CASE k = "company_domain" -> PyStr(field("companyDomain", MAX_DOMAIN_LENGTH))
                   [] k = "article_title"  -> PyStr(field("articleTitle", MAX_TITLE_LENGTH))
                   [] k = "article"        -> PyStr(field("article", MAX_ARTICLE_LENGTH))])

\* The checks of comprehensive_validation in the order it runs them, each
\* with the prefix of its reasons and its result on the stripped str() of
\* its field
FieldChecks(data) ==
    LET arg(key) == PyStr(Strip(ToStr(Get(data, key, PyStr("")))))
    IN  << [prefix |-> "Domain validation failed: ",  r |-> validate_domain(arg("companyDomain"))],
           [prefix |-> "Title validation failed: ",   r |-> validate_title(arg("articleTitle"))],
           [prefix |-> "Article validation failed: ", r |-> validate_article_content(arg("article"))] >>

\* The (is_valid, errors) tuple of comprehensive_validation
Verdict(errors) == [ok |-> Len(errors) = 0, errors |-> errors]

\* A comprehensive_validation that returns at the first failing check
FirstError(checks) ==
    LET failed == {i \in 1..Len(checks) : IsRaised(checks[i].r) \/ ~checks[i].r.ok}
    IN  IF failed = {} THEN Verdict(<<>>)
        ELSE IF IsRaised(checks[Min(failed)].r) THEN checks[Min(failed)].r
        ELSE Verdict(<<checks[Min(failed)].prefix \o checks[Min(failed)].r.error>>)

\* comprehensive_validation from the first check on: the errors of the
\* failing checks, appended in the order of the checks (the exception of
\* the first check that raises, if one does)
CollectErrors(checks) ==
    LET raised == {i \in 1..Len(checks) : IsRaised(checks[i].r)}
    IN  IF raised # {} THEN checks[Min(raised)].r
        ELSE Verdict(Flatten([i \in 1..Len(checks) |->
                                IF checks[i].r.ok THEN <<>>
                                ELSE <<checks[i].prefix \o checks[i].r.error>>]))

\* SecurityValidator.comprehensive_validation(data): (is_valid, errors)
comprehensive_validation(data) ==
    IF ~IsDict(data) THEN Verdict(<<"Invalid data format">>)
    ELSE CollectErrors(FieldChecks(data))

(***************************************************************************)
(* data_formatter.py: validate_article_data, sanitize_input_data           *)
(***************************************************************************)
required_fields == <<"companyDomain", "articleTitle", "article">>

\* An IsMissing that forgets the strip(): a field of spaces is not missing
IsMissingUnstripped(data, field) ==
    field \notin DOMAIN data.v \/ ToStr(Get(data, field, PyStr(""))) = ""

\* field not in data or not str(data.get(field, '')).strip()
IsMissing(data, field) ==
    field \notin DOMAIN data.v \/ Strip(ToStr(Get(data, field, PyStr("")))) = ""

\* validate_article_data after the required-field loop; cv is the result of
\* comprehensive_validation, which runs when no field is missing
AfterRequired(missing_fields, cv) ==
    IF Len(missing_fields) > 0
    THEN Ret(FALSE, "Missing required fields: " \o Join(missing_fields, ", "))
    ELSE IF IsRaised(cv) THEN cv
    ELSE IF ~cv.ok THEN Ret(FALSE, Join(cv.errors, "; "))
    ELSE Ret(TRUE, "")

\* validate_article_data(data): (is_valid, error_message)
validate_article_data(data) ==
    IF data = PyNone THEN Ret(FALSE, "No data provided")
    ELSE IF ~IsDict(data) THEN Ret(FALSE, "Invalid data format")
    ELSE AfterRequired(SelectSeq(required_fields, LAMBDA f : IsMissing(data, f)),
                       comprehensive_validation(data))

\* sanitize_input_data(data)
sanitize_input_data(data) == sanitize_article_data(data)

(***************************************************************************)
(* text_processor.py                                                       *)
(***************************************************************************)
\* get_extended_stop_words()
StopWords ==
    {"the", "and", "for", "are", "but", "not", "you", "all", "can", "had",
     "her", "was", "one", "our", "out", "day", "get", "has", "him", "his",
     "how", "man", "new", "now", "old", "see", "two", "way", "who", "boy",
     "did", "its", "let", "put", "say", "she", "too", "use", "that", "with",
     "have", "this", "will", "your", "from", "they", "know", "want", "been",
     "good", "much", "some", "time", "very", "when", "come", "here", "just",
     "like", "long", "make", "many", "over", "such", "take", "than", "them",
     "well", "were", "what",
     "also", "after", "back", "other", "more", "most", "first", "last",
     "each", "which", "there", "would", "could", "should", "about", "into",
     "only", "think", "where", "being", "both", "during", "before",
     "above", "below", "between", "through", "same", "different", "another",
     "without", "within", "still", "again", "against", "while", "since",
     "a", "an", "as", "at", "be", "by", "do", "he", "if", "in", "is", "it",
     "my", "no", "of", "on", "or", "so", "to", "up", "we", "me", "am",
     "said", "says", "going", "goes", "went", "came", "made", "makes",
     "look", "looks", "looked", "give", "gives", "gave", "told", "tell",
     "asked", "ask", "find", "found", "left", "right", "start", "started",
     "stop", "stopped", "turn", "turned", "work", "worked", "play", "played", "quot",
     "year", "years", "month", "months", "week", "weeks", "today", "tomorrow",
     "yesterday", "always", "never", "often", "sometimes", "usually", "once",
     "twice", "three", "four", "five", "six", "seven", "eight", "nine", "ten"}

SentenceEnd == {".", "!", "?"}

\* re.split(r'[.!?]+', text): the pieces between the runs of . ! ? , an empty
\* piece where the text starts or ends with one
SplitSentences(text) ==
    (IF text = "" \/ Ch(text, 1) \in SentenceEnd THEN <<"">> ELSE <<>>)
    \o Runs(text, SentenceEnd)
    \o (IF text # "" /\ Ch(text, Len(text)) \in SentenceEnd THEN <<"">> ELSE <<>>)

\* re.findall(r'\b[a-zA-Z]+\b', s): the maximal runs of word characters
\* that are letters throughout (a run holding a digit or _ has no word
\* boundary inside it and yields nothing)
FindWords(s) ==
    LET nonword == {Ch(s, i) : i \in {j \in 1..Len(s) : Ch(s, j) \notin WordSet}}
    IN  SelectSeq(Runs(s, nonword), LAMBDA w : \A i \in 1..Len(w) : Ch(w, i) \in LetterSet)

\* str.isdigit()
IsDigit(w) == w # "" /\ \A i \in 1..Len(w) : Ch(w, i) \in DigitSet

\* A preprocess_text that keeps every letters-only word, whatever its length
\* and whether or not it is a stop word
preprocess_text_unfiltered(text, stop_words) == FindWords(Lower(text))

\* preprocess_text(text, stop_words)
preprocess_text(text, stop_words) ==
    SelectSeq(FindWords(Lower(text)),
              LAMBDA w : Len(w) >= 3 /\ w \notin stop_words /\ ~IsDigit(w) /\ Len(w) <= 20)

\* seq[:n]
SliceTo(seq, n) ==
    IF n >= 0 THEN SubSeq(seq, 1, IF n < Len(seq) THEN n ELSE Len(seq))
    ELSE SubSeq(seq, 1, Len(seq) + n)

\* [s.strip() for s in sentences if s.strip()]
StrippedNonEmpty(sentences) ==
    SelectSeq(Tuple([i \in 1..Len(sentences) |-> Strip(sentences[i])]), LAMBDA x : x # "")

\* A generate_summary that compares with < : it appends the ellipsis to a
\* text of exactly max_sentences sentences
generate_summary_strict(text, max_sentences) ==
    IF text = "" \/ Strip(text) = "" THEN ""
    ELSE LET sentences == StrippedNonEmpty(SplitSentences(text))
         IN  IF Len(sentences) < max_sentences THEN Join(sentences, ". ")
             ELSE Join(SliceTo(sentences, max_sentences), ". ") \o "..."

\* generate_summary(text, max_sentences)
generate_summary(text, max_sentences) ==
    IF text = "" \/ Strip(text) = "" THEN ""
    ELSE LET sentences == StrippedNonEmpty(SplitSentences(text))
         IN  IF Len(sentences) <= max_sentences THEN Join(sentences, ". ")
             ELSE Join(SliceTo(sentences, max_sentences), ". ") \o "..."

\* The distinct elements of seq in the order of their first occurrence: the
\* key order of Counter(seq) and of the dicts built by iterating over it
Distinct(seq) ==
    Flatten([i \in 1..Len(seq) |->
                IF \E j \in 1..(i - 1) : seq[j] = seq[i] THEN <<>> ELSE <<seq[i]>>])

\* Counter(seq)[w]
Count(seq, w) == Cardinality({i \in 1..Len(seq) : seq[i] = w})

\* A sort that puts, among the items of equal key, the later one first
SortDescLastFirst(items, keys, minor) ==
    LET n == Len(items)
        before(j, i) == \/ keys[j] > keys[i]
                        \/ keys[j] = keys[i] /\ minor[j] > minor[i]
                        \/ keys[j] = keys[i] /\ minor[j] = minor[i] /\ j > i
        rank(i) == 1 + Cardinality({j \in 1..n : before(j, i)})
    IN  Tuple([r \in 1..n |-> items[CHOOSE i \in 1..n : rank(i) = r]])

\* sorted(items, key=..., reverse=True): by key descending, items of equal
\* key in their order in items (the sort is stable).  The key of items[i] is
\* the pair of keys[i] and minor[i], compared lexicographically.
SortDesc(items, keys, minor) ==
    LET n == Len(items)
        before(j, i) == \/ keys[j] > keys[i]
                        \/ keys[j] = keys[i] /\ minor[j] > minor[i]
                        \/ keys[j] = keys[i] /\ minor[j] = minor[i] /\ j < i
        rank(i) == 1 + Cardinality({j \in 1..n : before(j, i)})
    IN  Tuple([r \in 1..n |-> items[CHOOSE i \in 1..n : rank(i) = r]])

\* 1000000 * ln(n) for n = 1..16, sums of the logarithms of the primes so
\* that ln(a) + ln(b) = ln(ab) holds exactly
LnMicro ==
    LET ln2 == 693147  ln3 == 1098612  ln5 == 1609438  ln7 == 1945910
        ln11 == 2397895  ln13 == 2564949
    IN  <<0, ln2, ln3, 2 * ln2, ln5, ln2 + ln3, ln7, 3 * ln2, 2 * ln3, ln2 + ln5,
          ln11, 2 * ln2 + ln3, ln13, ln2 + ln7, ln3 + ln5, 4 * ln2>>

\* All the orders in which the elements of a set may be iterated
RECURSIVE Orders(_)
Orders(S) == IF S = {} THEN {<<>>} ELSE UNION {{<<x>> \o q : q \in Orders(S \ {x})} : x \in S}

\* set(preprocess_text(sentence.lower(), stop_words)) for every sentence
SentenceWords(sentences) ==
    Tuple([i \in 1..Len(sentences) |-> Range(preprocess_text(Lower(sentences[i]), StopWords))])

\* doc_freq[w]: the number of sentences whose surviving tokens include w
DocFreq(sentence_words, w) == Cardinality({i \in 1..Len(sentence_words) : w \in sentence_words[i]})

\* len(sentences): the empty pieces are counted too
NumSentencesAll(sentences) == Len(sentences)

\* len([s for s in sentences if s.strip()])
NumSentences(sentences) == Len(StrippedNonEmpty(sentences))

\* The keys of boosted_scores when no frequency threshold is applied
KeptWordsUngated(words) == Distinct(words)

\* The keys of boosted_scores in insertion order: the distinct words that
\* occur twice or are longer than 6 letters
KeptWords(words) == SelectSeq(Distinct(words), LAMBDA w : Count(words, w) >= 2 \/ Len(w) > 6)

\* The numbers the floating-point score of word w is computed from, besides
\* total_words and num_sentences (the same for all the words of a text):
\* word_freq[w], doc_freq[w], length_boost in sixths (min(len / 6, 2.0) if
\* len > 4 else 1.0) and whether w is among the first 100 tokens
ScoreClass(w, words, sentence_words) ==
    <<Count(words, w), DocFreq(sentence_words, w),
      IF Len(w) > 4 THEN (IF Len(w) < 12 THEN Len(w) ELSE 12) ELSE 6,
      w \in Range(SliceTo(words, 100))>>

\* The score classes of the kept words
ClassesOf(kept, words, sentence_words) ==
    Tuple([i \in 1..Len(kept) |-> ScoreClass(kept[i], words, sentence_words)])

Classes(words, sentences) == ClassesOf(KeptWords(words), words, SentenceWords(sentences))

\* The boosted score of a word of this class, times 30 * total_words *
\* 1000000 (so that it is an integer): tf * idf * length_boost *
\* position_boost with tf = freq / total_words, idf = ln(num_sentences /
\* doc_freq), position_boost = 1.2 or 1.0 (fifths: 6, 5), and without the
\* idf factor (times 1000000) when doc_freq is 0.
BoostedScore(class, num_sentences) ==
    LET idf == IF class[2] > 0 THEN LnMicro[num_sentences] - LnMicro[class[2]] ELSE 1000000
    IN  class[1] * idf * class[3] * (IF class[4] THEN 6 ELSE 5)

Scores(class, num_sentences) ==
    Tuple([i \in 1..Len(class) |-> BoostedScore(class[i], num_sentences)])

\* The classes, among class, whose exact score is that of a different class
\* (a score of 0 is the product of an idf of exactly 0.0 and is 0.0 whatever
\* the other factors)
TiedAmong(class, score) ==
    {class[i] : i \in {j \in 1..Len(class) :
                          /\ score[j] # 0
                          /\ \E k \in 1..Len(class) : score[k] = score[j] /\ class[k] # class[j]}}

TiedOf(class, num_sentences) == TiedAmong(class, Scores(class, num_sentences))

\* The score classes of the text that have the same exact score as a
\* different class: their floating-point scores are products of different
\* factors, which the arithmetic may round apart in either direction
TiedClasses(text) ==
    TiedOf(Classes(preprocess_text(text, StopWords), SplitSentences(text)),
           NumSentences(SplitSentences(text)))

\* A rank for every tied class
RoundingsOf(tied) == IF tied = {} THEN {<<>>} ELSE [tied -> 0..(Cardinality(tied) - 1)]

\* The ways the floating-point arithmetic of a platform can order the
\* scores of the text that are equal in exact arithmetic
Roundings(text) ==
    IF text = "" \/ Len(Strip(text)) < 50 \/ Len(preprocess_text(text, StopWords)) < 10 THEN {<<>>}
    ELSE RoundingsOf(TiedClasses(text))

\* sorted(boosted_scores.items(), key=lambda x: x[1], reverse=True), the
\* words of it; rounding gives the rank of the floating-point score of a
\* class among the classes of its exact score
Ranked(kept, class, num_sentences, rounding) ==
    SortDesc(kept, Scores(class, num_sentences),
             Tuple([i \in 1..Len(class) |->
                       IF class[i] \in DOMAIN rounding THEN rounding[class[i]] ELSE 0]))

\* A Keywords that forgets the [:max_keywords] slices
KeywordsUncapped(words, sentences, max_keywords, set_order, rounding) ==
    IF Len(words) < 10 THEN set_order
    ELSE Ranked(KeptWords(words), Classes(words, sentences), NumSentences(sentences), rounding)

\* extract_keywords from the tokens on.  set_order is the order in which
\* this process iterates over set(words) (it depends on the hash seed of
\* the process): one of Orders(Range(words)).
Keywords(words, sentences, max_keywords, set_order, rounding) ==
    IF Len(words) < 10 THEN SliceTo(set_order, max_keywords)
    ELSE SliceTo(Ranked(KeptWords(words), Classes(words, sentences), NumSentences(sentences), rounding),
                 max_keywords)

\* extract_keywords(text, max_keywords)
extract_keywords(text, max_keywords, set_order, rounding) ==
    IF text = "" \/ Len(Strip(text)) < 50 THEN <<>>
    ELSE Keywords(preprocess_text(text, StopWords), SplitSentences(text),
                  max_keywords, set_order, rounding)

\* The set iteration orders extract_keywords can meet on this text
SetOrders(text) ==
    IF text = "" \/ Len(Strip(text)) < 50 \/ Len(preprocess_text(text, StopWords)) >= 10 THEN {<<>>}
    ELSE Orders(Range(preprocess_text(text, StopWords)))

\* The phrase of length words that starts at word i, if the loop keeps it
Candidate(words, i, length, keyword_set, stop_words) ==
    LET phrase_words == SubSeq(words, i, i + length - 1)
        has_keyword == \E k \in 1..length : phrase_words[k] \in keyword_set
        non_stop_count == Cardinality({k \in 1..length : phrase_words[k] \notin stop_words})
        least == IF length \div 2 > 1 THEN length \div 2 ELSE 1
    IN  IF /\ i + length - 1 <= Len(words)
           /\ has_keyword
           /\ non_stop_count >= least
           /\ phrase_words[1] \notin stop_words
           /\ phrase_words[length] \notin stop_words
           /\ Len(Join(phrase_words, " ")) > 8
        THEN <<Join(phrase_words, " ")>> ELSE <<>>

\* The candidate phrases of the words of one sentence, in the order the
\* loops meet them
PhrasesIn(words, keyword_set, stop_words) ==
    Flatten([i \in 1..(Len(words) - 1) |->
                Candidate(words, i, 2, keyword_set, stop_words)
                \o Candidate(words, i, 3, keyword_set, stop_words)
                \o Candidate(words, i, 4, keyword_set, stop_words)])

SentencePhrases(sentence, keyword_set, stop_words) ==
    PhrasesIn(FindWords(Lower(sentence)), keyword_set, stop_words)

\* The stripped sentences of at least 20 characters
LongSentences(split) ==
    SelectSeq(Tuple([i \in 1..Len(split) |-> Strip(split[i])]), LAMBDA x : Len(x) >= 20)

\* The list phrases: a phrase is appended when it is not yet in it
CollectPhrases(sentences, keyword_set) ==
    Distinct(Flatten([i \in 1..Len(sentences) |->
                         SentencePhrases(sentences[i], keyword_set, StopWords)]))

\* sum(1 for word in phrase_words if word in keyword_set)
KeywordCount(phrase_words, keyword_set) ==
    Cardinality({k \in 1..Len(phrase_words) : phrase_words[k] \in keyword_set})

\* freq >= 2 or keyword_density >= 0.5
IsScored(phrase_words, freq, keyword_set) ==
    freq >= 2 \/ 2 * KeywordCount(phrase_words, keyword_set) >= Len(phrase_words)

\* final_score = freq * keyword_count / len * (1 + (len - 2) * 0.1), times
\* 120 (len is 2, 3 or 4)
FinalScore(phrase_words, freq, keyword_set) ==
    freq * KeywordCount(phrase_words, keyword_set) * (12 \div Len(phrase_words)) * (8 + Len(phrase_words))

\* scored_phrases sorted by score, the phrases of it
RankPhrases(scored, phrases, keyword_set) ==
    SortDesc(scored,
             Tuple([i \in 1..Len(scored) |->
                       FinalScore(Split(scored[i]), Count(phrases, scored[i]), keyword_set)]),
             Tuple([i \in 1..Len(scored) |-> 0]))

\* extract_key_phrases from the list phrases on
ScoredPhrases(phrases, keyword_set) ==
    RankPhrases(SelectSeq(phrases, LAMBDA ph : IsScored(Split(ph), Count(phrases, ph), keyword_set)),
                phrases, keyword_set)

\* An extract_key_phrases with the length threshold of extract_keywords
extract_key_phrases_from_50(text, max_phrases, set_order, rounding) ==
    IF text = "" \/ Len(Strip(text)) < 50 THEN <<>>
    ELSE SliceTo(ScoredPhrases(CollectPhrases(LongSentences(SplitSentences(text)),
                                              Range(extract_keywords(text, 20, set_order, rounding))),
                               Range(extract_keywords(text, 20, set_order, rounding))),
                 max_phrases)

\* extract_key_phrases(text, max_phrases); set_order and rounding as for
\* extract_keywords
extract_key_phrases(text, max_phrases, set_order, rounding) ==
    IF text = "" \/ Len(Strip(text)) < 100 THEN <<>>
    ELSE SliceTo(ScoredPhrases(CollectPhrases(LongSentences(SplitSentences(text)),
                                              Range(extract_keywords(text, 20, set_order, rounding))),
                               Range(extract_keywords(text, 20, set_order, rounding))),
                 max_phrases)

(***************************************************************************)
(* data_formatter.py: the record handed to the webhook                     *)
(***************************************************************************)
\* A dictionary whose delivery block counts the characters of the sanitized
\* article
PayloadRecounted(safe_domain, safe_title, safe_article, summary, keywords, phrases, current_time, article_length, word_count) ==
    [metadata |-> [company_domain |-> safe_domain,
                   article_title  |-> safe_title,
                   processed_at   |-> current_time,
                   article_length |-> article_length,
                   word_count     |-> word_count],
     content  |-> [title    |-> safe_title,
                   body     |-> safe_article,
                   summary  |-> summary,
                   keywords |-> keywords,
                   phrases  |-> phrases],
     payload  |-> [webhook_data |->
                      [domain    |-> safe_domain,
                       title     |-> safe_title,
                       content   |-> safe_article,
                       summary   |-> summary,
                       keywords  |-> keywords,
                       phrases   |-> phrases,
                       timestamp |-> current_time,
                       metadata  |-> [word_count |-> word_count,
                                      char_count |-> Len(safe_article)]]]]

\* The dictionary create_n8n_payload returns
Payload(safe_domain, safe_title, safe_article, summary, keywords, phrases, current_time, article_length, word_count) ==
    [metadata |-> [company_domain |-> safe_domain,
                   article_title  |-> safe_title,
                   processed_at   |-> current_time,
                   article_length |-> article_length,
                   word_count     |-> word_count],
     content  |-> [title    |-> safe_title,
                   body     |-> safe_article,
                   summary  |-> summary,
                   keywords |-> keywords,
                   phrases  |-> phrases],
     payload  |-> [webhook_data |->
                      [domain    |-> safe_domain,
                       title     |-> safe_title,
                       content   |-> safe_article,
                       summary   |-> summary,
                       keywords  |-> keywords,
                       phrases   |-> phrases,
                       timestamp |-> current_time,
                       metadata  |-> [word_count |-> word_count,
                                      char_count |-> article_length]]]]

\* The summary, keywords and phrases of the sanitized article, with the
\* default limits of the text processor (3 sentences, 15 keywords, 8 phrases)
Analyse(safe_domain, safe_title, safe_article, current_time, article_length, word_count, set_order, rounding) ==
    Payload(safe_domain, safe_title, safe_article,
            generate_summary(safe_article, 3),
            extract_keywords(safe_article, 15, set_order, rounding),
            extract_key_phrases(safe_article, 8, set_order, rounding),
            current_time, article_length, word_count)

\* A create_n8n_payload whose summary, keywords and phrases are those of the
\* article it is called with, and not of the sanitized article it delivers
create_n8n_payload_of_argument(company_domain, article_title, article, current_time, set_order, rounding) ==
    Payload(sanitize_for_processing(company_domain),
            sanitize_for_processing(article_title),
            sanitize_for_processing(article),
            generate_summary(article, 3),
            extract_keywords(article, 15, set_order, rounding),
            extract_key_phrases(article, 8, set_order, rounding),
            current_time, Len(article), Len(Split(article)))

\* create_n8n_payload(company_domain, article_title, article), with the clock
\* reading current_time and with the set order and the rounding of the
\* process that runs it
create_n8n_payload(company_domain, article_title, article, current_time, set_order, rounding) ==
    Analyse(sanitize_for_processing(company_domain),
            sanitize_for_processing(article_title),
            sanitize_for_processing(article),
            current_time, Len(article), Len(Split(article)), set_order, rounding)

(***************************************************************************)
(* State.  Each specification below drives one part of the program and     *)
(* leaves the variables of the other parts Off.                            *)
(***************************************************************************)
VARIABLES
    req,    \* the requests to process-article: position and local variables
    now,    \* the last reading of the clock (datetime.now)
    san,    \* a text and what sanitize_text returned for it
    val,    \* a submission and what the validators returned for it
    txt     \* a text and what the text processor returned for it

vars == <<req, now, san, val, txt>>

Off == [stage |-> "off"]

\* The sequences of at most max piece numbers out of n pieces
PieceSeqs(n, max) == UNION {[1..k -> 1..n] : k \in 0..max}

\* The text spelled by the pieces numbered idx
TextOf(pieces, idx) == Concat([i \in 1..Len(idx) |-> pieces[idx[i]]])

(***************************************************************************)
(* SpecSanitize: sanitize_text on texts built from pieces of injection     *)
(* payloads and of markup, in both modes, and on its own output.           *)
(***************************************************************************)
MaxSanPieces == 3

SanPieces == <<"{{", "{$a} ", "}}", "a & b", "&amp;lt;", "<b>", "union select ", " rm it">>

InitSanitize ==
    /\ \E idx \in PieceSeqs(Len(SanPieces), MaxSanPieces), allow_html \in BOOLEAN :
          san = [stage |-> "input", text |-> TextOf(SanPieces, idx), allow_html |-> allow_html,
                 out1 |-> "", out2 |-> ""]
    /\ req = <<>> /\ now = 0 /\ val = Off /\ txt = Off

\* out1 = sanitize_text(text, allow_html)
SanitizeText ==
    /\ san.stage = "input"
    /\ san' = [san EXCEPT !.stage = "once", !.out1 = sanitize_text(san.text, san.allow_html)]
    /\ UNCHANGED <<req, now, val, txt>>

\* out2 = sanitize_text(out1, allow_html)
SanitizeAgain ==
    /\ san.stage = "once"
    /\ san' = [san EXCEPT !.stage = "twice", !.out2 = sanitize_text(san.out1, san.allow_html)]
    /\ UNCHANGED <<req, now, val, txt>>

NextSanitize == SanitizeText \/ SanitizeAgain

SpecSanitize == InitSanitize /\ [][NextSanitize]_vars

\* C2: in both modes the output of sanitize_text has no substring that
\* matches an entry of the dangerous-pattern table.
SanitizedMatchesNoPattern == san.stage \in {"once", "twice"} => ~MatchesDangerous(san.out1)

\* C6: sanitize_text applied to its own output, in the same mode, returns
\* that output unchanged.
SanitizeIdempotent == san.stage = "twice" => san.out2 = san.out1

(***************************************************************************)
(* SpecValidate: the validators on submissions of every shape: no record,  *)
(* fields absent, null, not a str, blank, well-formed and ill-formed.      *)
(***************************************************************************)
MaxBodyPieces == 2

\* marks a field the record does not hold
Absent == [t |-> "absent"]

DomainValues ==
    {Absent, PyNone, PyInt(7), PyStr(""), PyStr("  "), PyStr("example.com"),
     PyStr(" Bit.ly "), PyStr("-bad-.com"), PyStr("a" \o NUL \o "b.com")}

TitleValues ==
    {Absent, PyNone, PyStr(" \t"), PyStr("Hi"), PyStr("Data models today"),
     PyStr("<script>alert(1)</script>")}

BodyPieces ==
    <<"Data models use data models and data. ",
      "Click here to buy now, act now! ",
      "{[<$>]}{[<$>]}",
      "  ">>

BodyValues ==
    {Absent, PyInt(0)}
    \cup {PyStr(TextOf(BodyPieces, idx)) : idx \in PieceSeqs(Len(BodyPieces), MaxBodyPieces)}

\* The record with the fields that are not Absent
Record(domain, title, article) ==
    LET value == [k \in Range(required_fields) |->
                     CASE k = "companyDomain" -> domain
                       [] k = "articleTitle"  -> title
                       [] k = "article"       -> article]
    IN  PyDict([k \in {f \in Range(required_fields) : value[f] # Absent} |-> value[k]])

\* What a request body can decode to
Submissions ==
    {PyNone, PyList(<<>>), PyStr("article")}
    \cup {Record(d, t, a) : d \in DomainValues, t \in TitleValues, a \in BodyValues}

InitValidate ==
    /\ \E data \in Submissions :
          val = [stage |-> "run", pc |-> 0, data |-> data,
                 result |-> Ret(FALSE, "not run"), cv |-> Verdict(<<"not run">>), fields |-> <<>>]
    /\ req = <<>> /\ now = 0 /\ san = Off /\ txt = Off

\* result = validate_article_data(data)
ValidateArticleData ==
    /\ val.stage = "run" /\ val.pc = 0
    /\ val' = [val EXCEPT !.pc = 1, !.result = validate_article_data(val.data)]
    /\ UNCHANGED <<req, now, san, txt>>

\* cv = SecurityValidator.comprehensive_validation(data)
ComprehensiveValidation ==
    /\ val.stage = "run" /\ val.pc = 1
    /\ val' = [val EXCEPT !.pc = 2, !.cv = comprehensive_validation(val.data)]
    /\ UNCHANGED <<req, now, san, txt>>

\* The value the caller hands a field validator: the field of the record as
\* it is (None when absent), the submission itself when it is no record
RawField(data, field) == IF IsDict(data) THEN Get(data, field, PyNone) ELSE data

\* fields = validate_domain, validate_title and validate_article_content on
\* the raw values
ValidateFields ==
    /\ val.stage = "run" /\ val.pc = 2
    /\ val' = [val EXCEPT !.pc = 3,
                          !.fields = <<validate_domain(RawField(val.data, "companyDomain")),
                                       validate_title(RawField(val.data, "articleTitle")),
                                       validate_article_content(RawField(val.data, "article"))>>]
    /\ UNCHANGED <<req, now, san, txt>>

NextValidate == ValidateArticleData \/ ComprehensiveValidation \/ ValidateFields

SpecValidate == InitValidate /\ [][NextValidate]_vars

\* The field is absent from the record, or blank once made text and trimmed
Blank(data, field) == field \notin DOMAIN data.v \/ Strip(ToStr(data.v[field])) = ""

\* The absent or blank fields, in the order domain, title, body
BlankFields(data) ==
    SelectSeq(<<"companyDomain", "articleTitle", "article">>, LAMBDA f : Blank(data, f))

\* C3: when a field is absent or blank, validation rejects with the one
\* reason that lists the absent or blank fields, comma-joined, in the order
\* domain, title, body; no field check adds a reason; the empty record is
\* rejected with all three names.
MissingFieldsReported ==
    (val.stage = "run" /\ val.pc >= 1 /\ IsDict(val.data) /\ BlankFields(val.data) # <<>>) =>
        /\ val.result = Ret(FALSE, "Missing required fields: " \o Join(BlankFields(val.data), ", "))
        /\ ~Contains(val.result.error, "validation failed")
        /\ val.data = PyDict(<<>>) =>
              val.result.error = "Missing required fields: companyDomain, articleTitle, article"

\* A record with an ill-formed domain, a title of white space and no body,
\* rejected for the title and the body alone
MissingFieldsWitness ==
    /\ val.stage = "run" /\ val.pc >= 1
    /\ val.data = Record(PyStr("-bad-.com"), PyStr(" \t"), Absent)
    /\ val.result = Ret(FALSE, "Missing required fields: articleTitle, article")

\* The reason a field check contributes: none when it accepts
Reason(prefix, r) == IF r.ok THEN <<>> ELSE <<prefix \o r.error>>

\* The trimmed text of a field of the record
FieldText(data, field) == PyStr(Strip(ToStr(data.v[field])))

\* C4: when all three fields are present, the reasons of
\* comprehensive_validation are those of the failing ones among the domain,
\* title and body checks, one each, in that order, whatever the earlier
\* checks returned; the record is accepted exactly when there is none.
AllChecksRun ==
    (val.stage = "run" /\ val.pc >= 2 /\ IsDict(val.data) /\ BlankFields(val.data) = <<>>) =>
        /\ val.cv.errors =
              Reason("Domain validation failed: ", validate_domain(FieldText(val.data, "companyDomain")))
              \o Reason("Title validation failed: ", validate_title(FieldText(val.data, "articleTitle")))
              \o Reason("Article validation failed: ", validate_article_content(FieldText(val.data, "article")))
        /\ val.cv.ok <=> val.cv.errors = <<>>

\* A record whose domain and body fail and whose title passes: two reasons
AllChecksRunWitness ==
    /\ val.stage = "run" /\ val.pc >= 2
    /\ IsDict(val.data) /\ BlankFields(val.data) = <<>>
    /\ validate_title(FieldText(val.data, "articleTitle")).ok
    /\ val.cv = Verdict(<<"Domain validation failed: Domain appears to be suspicious",
                          "Article validation failed: Content appears to be spam or auto-generated">>)

MaxTextPieces == 3

\* the largest max_sentences, max_keywords and max_phrases asked for
MaxItems == 2

Processes == 1..2

TextPieces ==
    <<"Data models use data models and data. ",
      "Machine learning models like learning machine! ",
      "It is what it is and so on? ",
      "  ">>

NotRun == [summary |-> "", order |-> <<>>, keywords |-> <<>>, phrases |-> <<>>]

InitText ==
    /\ \E idx \in PieceSeqs(Len(TextPieces), MaxTextPieces), n \in 0..MaxItems :
          LET text == TextOf(TextPieces, idx)
          IN  \E rounding \in Roundings(text) :
                 txt = [stage |-> "run", text |-> text, n |-> n, rounding |-> rounding,
                        pc |-> 0, proc |-> [p \in Processes |-> NotRun]]
    /\ req = <<>> /\ now = 0 /\ san = Off /\ val = Off

\* process p: summary = generate_summary(text, n)
GenerateSummary(p) ==
    /\ txt.stage = "run" /\ txt.pc = 3 * (p - 1)
    /\ txt' = [txt EXCEPT !.pc = @ + 1,
                          !.proc[p].summary = generate_summary(txt.text, txt.n)]
    /\ UNCHANGED <<req, now, san, val>>

\* process p: keywords = extract_keywords(text, n), with the set order of p
ExtractKeywords(p) ==
    /\ txt.stage = "run" /\ txt.pc = 3 * (p - 1) + 1
    /\ \E set_order \in SetOrders(txt.text) :
          txt' = [txt EXCEPT !.pc = @ + 1,
                             !.proc[p].order = set_order,
                             !.proc[p].keywords = extract_keywords(txt.text, txt.n, set_order, txt.rounding)]
    /\ UNCHANGED <<req, now, san, val>>

\* process p: phrases = extract_key_phrases(text, n)
ExtractKeyPhrases(p) ==
    /\ txt.stage = "run" /\ txt.pc = 3 * (p - 1) + 2
    /\ txt' = [txt EXCEPT !.pc = @ + 1,
                          !.proc[p].phrases = extract_key_phrases(txt.text, txt.n, txt.proc[p].order, txt.rounding)]
    /\ UNCHANGED <<req, now, san, val>>

NextText == \E p \in Processes : GenerateSummary(p) \/ ExtractKeywords(p) \/ ExtractKeyPhrases(p)

SpecText == InitText /\ [][NextText]_vars

\* C7: two runs of the analysis on the same text, in two processes, return
\* the same summary and the same keyword and phrase sequences.
AnalysisDeterministic ==
    (txt.stage = "run" /\ txt.pc = 6) =>
        /\ txt.proc[1].summary = txt.proc[2].summary
        /\ txt.proc[1].keywords = txt.proc[2].keywords
        /\ txt.proc[1].phrases = txt.proc[2].phrases

\* The process p has run its step number k (1: summary, 2: keywords, 3: phrases)
HasRun(p, k) == txt.stage = "run" /\ txt.pc >= 3 * (p - 1) + k

\* C8: the keywords are empty for a text whose trimmed length is below 50,
\* never more than max_keywords and never hold a word twice.
KeywordsCapped ==
    \A p \in Processes :
        HasRun(p, 2) =>
            /\ Len(Strip(txt.text)) < 50 => txt.proc[p].keywords = <<>>
            /\ Len(txt.proc[p].keywords) <= txt.n
            /\ NoDuplicates(txt.proc[p].keywords)

\* A text of 10 tokens or more with more rankable words than max_keywords,
\* of which max_keywords > 0 were returned
KeywordsCappedWitness ==
    /\ HasRun(1, 2) /\ txt.n > 0
    /\ Len(preprocess_text(txt.text, StopWords)) >= 10
    /\ Len(KeptWords(preprocess_text(txt.text, StopWords))) > txt.n
    /\ Len(txt.proc[1].keywords) = txt.n

\* C9: the key phrases are empty for a text whose trimmed length is below
\* 100, never more than max_phrases and never hold a phrase twice.
PhrasesCapped ==
    \A p \in Processes :
        HasRun(p, 3) =>
            /\ Len(Strip(txt.text)) < 100 => txt.proc[p].phrases = <<>>
            /\ Len(txt.proc[p].phrases) <= txt.n
            /\ NoDuplicates(txt.proc[p].phrases)

\* A text whose sentence comes twice, so that its phrases are met twice,
\* with max_phrases > 0 phrases returned
PhrasesCappedWitness ==
    /\ HasRun(1, 3) /\ txt.n > 0
    /\ Len(txt.proc[1].phrases) = txt.n
    /\ \E i, j \in 1..Len(SplitSentences(txt.text)) :
          i < j /\ Len(Strip(SplitSentences(txt.text)[i])) >= 20
                /\ SplitSentences(txt.text)[i] = SplitSentences(txt.text)[j]

\* The trimmed, non-empty pieces of the text between runs of . ! ?
Segments(text) == StrippedNonEmpty(Runs(text, {".", "!", "?"}))

\* C10: the summary is empty for an empty or blank text; otherwise it is all
\* the segments joined by ". " when they are at most max_sentences, and the
\* first max_sentences of them joined by ". " followed by "..." when not.
SummaryAsSpecified ==
    \A p \in Processes :
        HasRun(p, 1) =>
            txt.proc[p].summary =
                IF Strip(txt.text) = "" THEN ""
                ELSE IF Len(Segments(txt.text)) <= txt.n THEN Join(Segments(txt.text), ". ")
                ELSE Join(SubSeq(Segments(txt.text), 1, txt.n), ". ") \o "..."

\* A text of exactly max_sentences > 0 segments, summarised without ellipsis
SummaryWitness ==
    /\ HasRun(1, 1) /\ txt.n > 0
    /\ Len(Segments(txt.text)) = txt.n
    /\ txt.proc[1].summary = Join(Segments(txt.text), ". ")

(***************************************************************************)
(* Spec: the requests to process-article (routes/main.py).  A request      *)
(* walks through the handler one call at a time; the requests interleave.  *)
(***************************************************************************)
MaxRequests == 2

MaxClock == 1

Requests == 1..MaxRequests

\* A local variable of the handler that is not assigned yet
Unset == [t |-> "unset"]

\* What a body that is no JSON document decodes to
NotJson == [t |-> "not json"]

\* A request body: whether it holds any bytes (request.data), and the value
\* it decodes to
Body(has_data, json) == [has_data |-> has_data, json |-> json]

Articles ==
    <<"Data models use data models and data. ",
      "Machine learning models like learning machine! ",
      "Click here to buy now, act now! ">>

Bodies ==
    {Body(FALSE, NotJson), Body(TRUE, NotJson), Body(TRUE, PyNone), Body(TRUE, PyDict(<<>>)),
     Body(TRUE, Record(PyStr("example.com"), PyStr("Data models today"),
                       PyStr(Articles[1] \o Articles[1]))),
     Body(TRUE, Record(PyStr(" Example.org "), PyStr("Tom & Jerry <b>models</b>"),
                       PyStr(Articles[2] \o "<i>" \o Articles[1] \o "</i>" \o Articles[2]))),
     Body(TRUE, Record(PyStr("bit.ly"), PyStr("Hi"), PyStr(Articles[3] \o Articles[3])))}

\* request.get_json(): the decoded body; for a body that is no JSON document
\* Flask returns None or raises BadRequest, by its version and the content type
GetJsonOutcomes(body) ==
    IF body.json = NotJson THEN {PyNone, Raised("BadRequest")} ELSE {body.json}

\* What the webhook call can come to; "200 too deep" is a 200 whose body is
\* JSON nested deeper than the interpreter's recursion limit
WebhookOutcomes ==
    {"200 json", "200 empty", "200 not json", "200 too deep", "500", "Timeout",
     "ConnectionError"}

\* response.json() on a body that is no JSON raises an error that is a
\* RequestException in requests 2.27 and later and a plain ValueError before
JsonErrors == {"RequestException", "ValueError"}

Idle ==
    [pc |-> "idle", body |-> Unset, data |-> Unset, validation |-> Unset,
     clean_data |-> Unset, processed_data |-> Unset, set_order |-> <<>>, rounding |-> <<>>,
     posts |-> 0, posted |-> Unset, webhook |-> "not called", response |-> Unset]

\* return jsonify(body), status
Responded(q, status, body) ==
    [q EXCEPT !.pc = "done", !.response = [status |-> status, body |-> body]]

\* except Exception as e: the answer 500
InternalError(q, exc) == Responded(q, 500, [error |-> "Internal server error: " \o exc])

Init ==
    /\ req = [r \in Requests |-> Idle]
    /\ now = 0
    /\ san = Off /\ val = Off /\ txt = Off

\* A request arrives
Receive(r) ==
    /\ req[r].pc = "idle"
    /\ \E body \in Bodies :
          req' = [req EXCEPT ![r] = [@ EXCEPT !.pc = "get_json", !.body = body]]
    /\ UNCHANGED <<now, san, val, txt>>

\* The handler after get_json returned data
Parsed(q, data) ==
    IF IsRaised(data) THEN InternalError(q, data.raised)
    ELSE IF data = PyNone /\ q.body.has_data
    THEN Responded([q EXCEPT !.data = data], 400, [error |-> "Invalid JSON format"])
    ELSE [q EXCEPT !.pc = "validate", !.data = data]

GetJson(r) ==
    /\ req[r].pc = "get_json"
    /\ \E data \in GetJsonOutcomes(req[r].body) :
          req' = [req EXCEPT ![r] = Parsed(@, data)]
    /\ UNCHANGED <<now, san, val, txt>>

\* The handler goes on as if the submission had passed validation
ValidatedUnchecked(q, validation) ==
    [q EXCEPT !.pc = "sanitize", !.validation = validation]

\* The handler after validate_article_data returned
Validated(q, validation) ==
    IF IsRaised(validation) THEN InternalError(q, validation.raised)
    ELSE IF ~validation.ok
    THEN Responded([q EXCEPT !.validation = validation], 400, [error |-> validation.error])
    ELSE [q EXCEPT !.pc = "sanitize", !.validation = validation]

Validate(r) ==
    /\ req[r].pc = "validate"
    /\ req' = [req EXCEPT ![r] = Validated(@, validate_article_data(@.data))]
    /\ UNCHANGED <<now, san, val, txt>>

\* The sanitized submission is kept in one place for all requests: a request
\* picks up the submission of the first request when that one passed validation
SanitizeShared(r) ==
    /\ req[r].pc = "sanitize"
    /\ req' = [req EXCEPT ![r] =
                  [@ EXCEPT !.pc = "create_payload",
                            !.clean_data = sanitize_input_data(
                                IF req[1].validation = Ret(TRUE, "")
                                THEN req[1].data ELSE req[r].data)]]
    /\ UNCHANGED <<now, san, val, txt>>

\* The sanitized values are written into the submitted record, which is
\* also what the call returns
SanitizeInPlace(r) ==
    /\ req[r].pc = "sanitize"
    /\ req' = [req EXCEPT ![r] = [@ EXCEPT !.pc = "create_payload",
                                           !.clean_data = sanitize_input_data(req[r].data),
                                           !.data = sanitize_input_data(req[r].data)]]
    /\ UNCHANGED <<now, san, val, txt>>

Sanitize(r) ==
    /\ req[r].pc = "sanitize"
    /\ req' = [req EXCEPT ![r] = [@ EXCEPT !.pc = "create_payload",
                                           !.clean_data = sanitize_input_data(req[r].data)]]
    /\ UNCHANGED <<now, san, val, txt>>

\* The text of a field of clean_data
Clean(q, key) == q.clean_data.v[key].v

\* The requests of one platform round alike: no other request holds a
\* different rounding for a class of scores
SamePlatform(r, rounding) ==
    \A o \in Requests \ {r} :
        \A class \in DOMAIN rounding \cap DOMAIN req[o].rounding :
            rounding[class] = req[o].rounding[class]

\* The handler after create_n8n_payload returned
Created(q, processed_data, set_order, rounding) ==
    [q EXCEPT !.pc = "post", !.processed_data = processed_data,
              !.set_order = set_order, !.rounding = rounding]

\* datetime.now reads a clock that does not run backwards
CreatePayloadOf(r, safe_article) ==
    \E current_time \in now..MaxClock, set_order \in SetOrders(safe_article),
       rounding \in Roundings(safe_article) :
        /\ SamePlatform(r, rounding)
        /\ now' = current_time
        /\ req' = [req EXCEPT ![r] =
                      Created(@, create_n8n_payload(Clean(@, "company_domain"),
                                                    Clean(@, "article_title"),
                                                    Clean(@, "article"),
                                                    current_time, set_order, rounding),
                              set_order, rounding)]

CreatePayload(r) ==
    /\ req[r].pc = "create_payload"
    /\ IF "company_domain" \notin DOMAIN req[r].clean_data.v
       THEN req' = [req EXCEPT ![r] = InternalError(@, "KeyError")] /\ now' = now
       ELSE CreatePayloadOf(r, sanitize_for_processing(Clean(req[r], "article")))
    /\ UNCHANGED <<san, val, txt>>

\* requests.post(n8n_webhook_url, json=processed_data["payload"], timeout=10)
\* is under way
PostWebhook(r) ==
    /\ req[r].pc = "post"
    /\ req' = [req EXCEPT ![r] = [@ EXCEPT !.pc = "await", !.posts = @ + 1,
                                           !.posted = req[r].processed_data.payload]]
    /\ UNCHANGED <<now, san, val, txt>>

Success(q, n8n_response) ==
    Responded(q, 200, [success |-> TRUE,
                       message |-> "Article processed and sent to n8n successfully",
                       n8n_response |-> n8n_response,
                       processed_data |-> q.processed_data])

Failure(q, message) ==
    Responded(q, 200, [success |-> FALSE, message |-> message,
                       processed_data |-> q.processed_data])

\* The handler after requests.post returned or raised
Replied(q, outcome, json_error) ==
    CASE outcome = "200 json"  -> Success(q, PyStr("n8n"))
      [] outcome = "200 empty" -> Success(q, PyNone)
      [] outcome = "200 not json" ->
            IF json_error = "RequestException"
            THEN Failure(q, "Failed to send to n8n: JSONDecodeError")
            ELSE InternalError(q, "JSONDecodeError")
      [] outcome = "200 too deep" -> InternalError(q, "RecursionError")
      [] outcome = "500" -> Failure(q, "n8n webhook failed with status 500")
      [] OTHER -> Failure(q, "Failed to send to n8n: " \o outcome)

\* The outcomes of a webhook call that failed: a status other than 200, a
\* timeout, a connection error
FailedOutcomes == {"500", "Timeout", "ConnectionError"}

\* A handler that posts once more when the webhook call failed
WebhookRepliesRetrying(r) ==
    /\ req[r].pc = "await"
    /\ \E outcome \in WebhookOutcomes, json_error \in JsonErrors :
          req' = [req EXCEPT ![r] =
                     IF outcome \in FailedOutcomes /\ @.posts < 2
                     THEN [@ EXCEPT !.pc = "post", !.webhook = outcome]
                     ELSE Replied([@ EXCEPT !.webhook = outcome], outcome, json_error)]
    /\ UNCHANGED <<now, san, val, txt>>

\* requests.post returns or raises, webhook being what it came to, and the
\* handler answers
WebhookReplies(r) ==
    /\ req[r].pc = "await"
    /\ \E outcome \in WebhookOutcomes, json_error \in JsonErrors :
          req' = [req EXCEPT ![r] = Replied([@ EXCEPT !.webhook = outcome], outcome, json_error)]
    /\ UNCHANGED <<now, san, val, txt>>

Next ==
    \/ \E r \in Requests : Receive(r)
    \/ \E r \in Requests : GetJson(r)
    \/ \E r \in Requests : Validate(r)
    \/ \E r \in Requests : Sanitize(r)
    \/ \E r \in Requests : CreatePayload(r)
    \/ \E r \in Requests : PostWebhook(r)
    \/ \E r \in Requests : WebhookReplies(r)

Spec == Init /\ [][Next]_vars

\* The handler of request r, begun and not yet ended, takes a step.  Every
\* step of a handler changes the position of its request, so the first
\* disjunct is a case of the second: it shows a step that is possible
\* without working out what the statement at hand computes.
Moves(r) ==
    /\ req[r].pc \notin {"idle", "done"}
    /\ \/ req' = [req EXCEPT ![r].pc = "done"]
       \/ req'[r] # req[r]

\* The handler runs its statements one after the other and waits for nothing
\* but requests.post, which returns or raises within its timeout of 10
\* seconds of silence: a handler that has begun goes on until it has
\* returned.  Nothing makes a request arrive.
SpecLive == Spec /\ \A r \in Requests : WF_req(Moves(r))

\* The place of a position in the handler
Position(pc) ==
    CHOOSE i \in 1..8 :
        <<"idle", "get_json", "validate", "sanitize", "create_payload", "post", "await", "done">>[i] = pc

\* C1: a request moves through get_json, validation, sanitization, assembly
\* and delivery in this order or ends with a response; a delivery is attempted
\* only from the position after assembly, for a body that was decoded and
\* passed validation, and what is delivered is the record built from the
\* sanitized submission.
StepsInOrder ==
    [][\A r \in Requests :
          /\ req'[r].pc # req[r].pc =>
                \/ req'[r].pc = "done"
                \/ Position(req'[r].pc) = Position(req[r].pc) + 1
          /\ req'[r].posts # req[r].posts =>
                /\ req[r].pc = "post"
                /\ req[r].body.json # NotJson
                /\ req[r].data = req[r].body.json
                /\ req[r].validation = Ret(TRUE, "")
                /\ validate_article_data(req[r].data) = Ret(TRUE, "")
                /\ req[r].clean_data = sanitize_article_data(req[r].data)
                /\ req[r].processed_data =
                      create_n8n_payload(Clean(req[r], "company_domain"),
                                         Clean(req[r], "article_title"),
                                         Clean(req[r], "article"),
                                         req[r].processed_data.metadata.processed_at,
                                         req[r].set_order, req[r].rounding)
                /\ req'[r].posted = req[r].processed_data.payload
      ]_vars

\* One request was delivered and answered with success, its record holding
\* the sanitized title, while another was rejected without a delivery
StepsInOrderWitness ==
    /\ req # <<>>
    /\ \E r, o \in Requests :
          /\ req[r].pc = "done" /\ req[r].posts = 1
          /\ req[r].response.status = 200 /\ req[r].response.body.success
          /\ req[r].posted.webhook_data.title = "Tom &amp; Jerry models"
          /\ req[o].pc = "done" /\ req[o].posts = 0
          /\ req[o].response.status = 400

(***************************************************************************)
(* SpecRecord: one request from validation to the assembled record, over   *)
(* a wider set of submissions than the interleaved requests of Spec.       *)
(***************************************************************************)
MaxArticlePieces == 2

\* A title of 84 double quotes: 504 characters once each is written &quot;
QuotedTitle == Concat([i \in 1..84 |-> "\""])

RecordDomains ==
    {PyStr("example.com"), PyStr(" Example.org "), PyStr("\tSub-1.Example.COM\n"), PyInt(12345)}

RecordTitles ==
    {PyStr("Data models today"), PyStr("Tom & Jerry <b>models</b>"), PyStr(QuotedTitle), PyStr("Hi")}

ArticlePieces ==
    <<"Data models use data models and data. ",
      "Machine learning models like learning machine! ",
      "<i>Tom   &amp; Jerry</i> <br> learn it's fine\n">>

RecordArticles ==
    {PyInt(0)} \cup {PyStr(TextOf(ArticlePieces, idx) \o TextOf(ArticlePieces, idx)) :
                        idx \in PieceSeqs(Len(ArticlePieces), MaxArticlePieces)}

InitRecord ==
    /\ \E d \in RecordDomains, t \in RecordTitles, a \in RecordArticles :
          req = [r \in Requests |->
                    IF r = 1
                    THEN [Idle EXCEPT !.pc = "validate",
                                      !.body = Body(TRUE, Record(d, t, a)),
                                      !.data = Record(d, t, a)]
                    ELSE Idle]
    /\ now = 0
    /\ san = Off /\ val = Off /\ txt = Off

NextRecord == Validate(1) \/ Sanitize(1) \/ CreatePayload(1)

SpecRecord == InitRecord /\ [][NextRecord]_vars

\* The record a request holds once create_n8n_payload has returned
HasRecord(r) == req # <<>> /\ req[r].processed_data # Unset

\* C11: in every record of the pipeline the domain, the title and the body
\* are at most MAX_DOMAIN_LENGTH, MAX_TITLE_LENGTH and MAX_ARTICLE_LENGTH
\* characters long.
RecordFieldsBounded ==
    \A r \in Requests :
        HasRecord(r) =>
            /\ Len(req[r].processed_data.metadata.company_domain) <= MAX_DOMAIN_LENGTH
            /\ Len(req[r].processed_data.metadata.article_title) <= MAX_TITLE_LENGTH
            /\ Len(req[r].processed_data.content.body) <= MAX_ARTICLE_LENGTH

\* The body of the submission of a request, as text
SubmittedBody(r) == ToStr(req[r].data.v["article"])

\* C12: in every record of the pipeline, the character length and the word
\* count of the metadata are those of the body as it was submitted, before
\* any sanitization.
MetadataOfSubmittedBody ==
    \A r \in Requests :
        HasRecord(r) =>
            /\ req[r].processed_data.metadata.article_length = Len(SubmittedBody(r))
            /\ req[r].processed_data.metadata.word_count = Len(Split(SubmittedBody(r)))

\* C13: in every record the delivery block carries the same domain, title,
\* body, summary, keywords, phrases, timestamp, word count and character
\* count as the metadata and content blocks of that record.
DeliveryBlockSame ==
    \A r \in Requests :
        HasRecord(r) =>
            LET record == req[r].processed_data
                webhook_data == record.payload.webhook_data
            IN  /\ webhook_data.domain = record.metadata.company_domain
                /\ webhook_data.title = record.metadata.article_title
                /\ webhook_data.title = record.content.title
                /\ webhook_data.content = record.content.body
                /\ webhook_data.summary = record.content.summary
                /\ webhook_data.keywords = record.content.keywords
                /\ webhook_data.phrases = record.content.phrases
                /\ webhook_data.timestamp = record.metadata.processed_at
                /\ webhook_data.metadata.word_count = record.metadata.word_count
                /\ webhook_data.metadata.char_count = record.metadata.article_length

\* A record with keywords and phrases, a title that sanitization changed and
\* a body whose sanitized length is not the length counted
DeliveryBlockSameWitness ==
    /\ HasRecord(1)
    /\ Len(req[1].processed_data.content.keywords) >= 2
    /\ Len(req[1].processed_data.content.phrases) >= 2
    /\ req[1].processed_data.payload.webhook_data.title = "Tom &amp; Jerry models"
    /\ req[1].processed_data.payload.webhook_data.timestamp = 1
    /\ Len(req[1].processed_data.content.body) # req[1].processed_data.metadata.article_length


\* The validation verdict of request r, once its validation step has run
ValidationOf(r) == req[r].validation

\* C14: a request whose submission fails validation is answered with HTTP 400
\* and a non-empty error message, and a request whose submission passes
\* validation is answered with HTTP 200 whatever the webhook does
ValidationDecidesStatus ==
    \A r \in Requests :
        (req[r].pc = "done" /\ ValidationOf(r) # Unset) =>
            IF ValidationOf(r).ok
            THEN req[r].response.status = 200
            ELSE /\ req[r].response.status = 400
                 /\ req[r].response.body.error # ""


\* C15: for a text that matches no dangerous pattern, HTML-entity decoding of
\* sanitize_text(text, escaped mode) gives back the text, up to whitespace
\* normalization.
EscapedRoundTrip ==
    (san.stage \in {"once", "twice"} /\ san.allow_html /\ ~MatchesDangerous(san.text)) =>
        NormalizeWhitespace(HtmlUnescape(san.out1)) = NormalizeWhitespace(san.text)


\* The record create_n8n_payload builds for a submission handled alone, on
\* the platform and at the clock reading of request q
RecordAlone(q, clean_data) ==
    create_n8n_payload(clean_data.v["company_domain"].v, clean_data.v["article_title"].v,
                       clean_data.v["article"].v, q.processed_data.metadata.processed_at,
                       q.set_order, q.rounding)

\* C16: under every interleaving of the steps of the requests, the validation
\* outcome, the sanitized submission and the record of a request (apart from
\* the timestamp) are those of its own decoded submission handled alone,
\* wherever the other requests stand.
RequestsIndependent ==
    [][\A r \in Requests :
          /\ req'[r].validation # req[r].validation =>
                req'[r].validation = validate_article_data(req[r].data)
          /\ req'[r].clean_data # req[r].clean_data =>
                req'[r].clean_data = sanitize_input_data(req[r].data)
          /\ req'[r].processed_data # req[r].processed_data =>
                req'[r].processed_data =
                      RecordAlone(req'[r], sanitize_input_data(req[r].data))
      ]_vars

\* The second request went from validation to its record while the first,
\* with another submission, stood between sanitization and assembly
RequestsIndependentWitness ==
    /\ req # <<>>
    /\ req[1].pc = "create_payload"
    /\ req[2].pc = "post"
    /\ req[2].body.json # req[1].body.json
    /\ req[2].processed_data.content.body # Clean(req[1], "article")


\* C17: validate_article_data (with comprehensive_validation inside it) and
\* sanitize_article_data leave the submitted record with the keys and values
\* it had, and sanitization returns a record of its own, keyed
\* company_domain, article_title and article.
SubmissionUnchanged ==
    [][\A r \in Requests :
          req[r].pc \in {"validate", "sanitize"} =>
              /\ req'[r].data = req[r].data
              /\ req'[r].data = req[r].body.json
              /\ DOMAIN req'[r].data.v = {"companyDomain", "articleTitle", "article"}
              /\ req[r].pc = "sanitize" =>
                    /\ req[r].clean_data = Unset
                    /\ DOMAIN req'[r].clean_data.v = {"company_domain", "article_title", "article"}
      ]_vars

\* Sanitization changed the title and the body, and the submitted record
\* still holds the title and the body as submitted
SubmissionUnchangedWitness ==
    /\ req # <<>>
    /\ req[1].pc = "create_payload"
    /\ req[1].data.v["articleTitle"] = PyStr("Tom & Jerry <b>models</b>")
    /\ Clean(req[1], "article_title") = "Tom & Jerry models"
    /\ Clean(req[1], "article") # req[1].data.v["article"].v


(***************************************************************************)
(* SpecDomain: validate_domain on every entry of the deny-list, in lower,  *)
(* upper and mixed case, bare and inside white space, and on domains that  *)
(* come close to an entry.                                                 *)
(***************************************************************************)
ToUpperCh == [c \in LowerSet |-> Ch(UPPER, CHOOSE i \in 1..Len(LOWER) : Ch(LOWER, i) = c)]

\* s with the letters at the positions 1, 1 + every, 1 + 2 * every, ... made
\* upper case
Cased(s, every) ==
    Concat([i \in 1..Len(s) |-> IF (i - 1) % every = 0 /\ Ch(s, i) \in LowerSet
                                THEN ToUpperCh[Ch(s, i)] ELSE Ch(s, i)])

Casings(s) == {s, Cased(s, 1), Cased(s, 2)}

Margins == {<<"", "">>, <<" ", "">>, <<"\t\n", " ">>, <<"", "\r\n">>}

DenyListInputs ==
    {PyStr(m[1] \o c \o m[2]) : m \in Margins,
                                c \in UNION {Casings(e) : e \in SUSPICIOUS_DOMAINS}}

NearInputs ==
    {PyStr("example.com"), PyStr("bit.ly.com"), PyStr("bitly"), PyStr("t.c"), PyStr("xt.co"),
     PyStr("goo.gl."), PyStr("ow-ly"), PyStr("bit .ly"), PyStr("malware.com/"),
     PyStr("phishing.co"), PyStr("alert(1).com"), PyNone, PyInt(7), PyStr("")}

InitDomain ==
    /\ \E domain \in DenyListInputs \cup NearInputs :
          val = [stage |-> "domain", pc |-> 0, domain |-> domain, result |-> Ret(FALSE, "not run")]
    /\ req = <<>> /\ now = 0 /\ san = Off /\ txt = Off

\* result = SecurityValidator.validate_domain(domain)
ValidateDomain ==
    /\ val.stage = "domain" /\ val.pc = 0
    /\ val' = [val EXCEPT !.pc = 1, !.result = validate_domain(val.domain)]
    /\ UNCHANGED <<req, now, san, txt>>

NextDomain == ValidateDomain

SpecDomain == InitDomain /\ [][NextDomain]_vars

\* C18: validate_domain rejects every domain that, trimmed and lower-cased,
\* is an entry of the deny-list, and the reason says "suspicious": none of
\* the checks required, too long, too short and format comes first for it.
DenyListRejected ==
    (val.stage = "domain" /\ val.pc = 1 /\ IsStr(val.domain)
        /\ Lower(Strip(val.domain.v)) \in SUSPICIOUS_DOMAINS) =>
            /\ ~val.result.ok
            /\ Contains(val.result.error, "suspicious")
            /\ ~Contains(val.result.error, "required")
            /\ ~Contains(val.result.error, "too")
            /\ ~Contains(val.result.error, "format")

\* The shortest entry, in capitals inside white space, rejected as suspicious
DenyListRejectedWitness ==
    /\ val.stage = "domain" /\ val.pc = 1
    /\ val.domain = PyStr("\t\nT.CO ")
    /\ val.result = Ret(FALSE, "Domain appears to be suspicious")


(***************************************************************************)
(* SpecContent: validate_article_content on bodies put together from plain *)
(* text, spam phrases, suspicious characters, special characters, a        *)
(* repeated token and a token of 101 characters, and on bodies at the      *)
(* ceiling of 1,000,000 characters.                                        *)
(***************************************************************************)
MaxContentPieces == 3

RECURSIVE Repeat(_, _)
\* s * n
Repeat(s, n) ==
    IF n = 0 THEN ""
    ELSE IF n % 2 = 1 THEN s \o Repeat(s, n - 1)
    ELSE LET half == Repeat(s, n \div 2) IN half \o half

ContentPieces ==
    <<"Data models use data models and data. ",
      "Click here to buy now, act now! ",
      "<{[$]}> ",
      "the The the the the the the the ",
      "Wow!!! (50% off) #1 *** ",
      Repeat("x", 101) \o " ">>

ContentInputs ==
    {PyStr(TextOf(ContentPieces, idx)) : idx \in PieceSeqs(Len(ContentPieces), MaxContentPieces)}
    \cup {PyNone, PyInt(7), PyStr(" \n "), PyStr(Repeat("a", 49)), PyStr(" " \o Repeat("a", 50) \o " "),
          PyStr(Repeat("a", 100) \o " " \o Repeat("b", 100)),
          PyStr(Repeat("<", MAX_ARTICLE_LENGTH)), PyStr(Repeat("<", MAX_ARTICLE_LENGTH + 1)),
          PyStr(" " \o Repeat("<", MAX_ARTICLE_LENGTH) \o " ")}

InitContent ==
    /\ \E content \in ContentInputs :
          val = [stage |-> "content", pc |-> 0, content |-> content, result |-> Ret(FALSE, "not run")]
    /\ req = <<>> /\ now = 0 /\ san = Off /\ txt = Off

\* result = SecurityValidator.validate_article_content(content)
ValidateContent ==
    /\ val.stage = "content" /\ val.pc = 0
    /\ val' = [val EXCEPT !.pc = 1, !.result = validate_article_content(val.content)]
    /\ UNCHANGED <<req, now, san, txt>>

NextContent == ValidateContent

SpecContent == InitContent /\ [][NextContent]_vars

\* The reason of the first check the trimmed body c fails, in the order too
\* long, too short, suspicious characters, spam, long word; "" when it
\* passes them all
FirstFailing(c) ==
    CASE Len(c) > 1000000 -> "Article too long (max 1000000 characters)"
      [] Len(c) <= 1000000 /\ Len(c) < 50 -> "Article too short (minimum 50 characters)"
      [] Len(c) \in 50..1000000 /\ CountChars(c, SuspiciousCharSet) * 10 > Len(c) ->
            "Content contains too many suspicious characters"
      [] OTHER ->
            IF detect_spam_patterns(c) THEN "Content appears to be spam or auto-generated"
            ELSE IF \E i \in 1..Len(Split(c)) : Len(Split(c)[i]) > 100
            THEN "Content contains suspiciously long words"
            ELSE ""

\* C19: validate_article_content accepts a body if and only if its trimmed
\* text is not empty, has 50 to 1,000,000 characters, at most 10% of them
\* suspicious, does not fire the spam heuristic and has no token of more
\* than 100 characters; a rejected body gets the reason of the first
\* failing check in the order too long, too short, suspicious characters,
\* spam, long word.
ContentAcceptedIff ==
    (val.stage = "content" /\ val.pc = 1 /\ IsStr(val.content)) =>
        /\ val.result.ok <=> (Strip(val.content.v) # "" /\ FirstFailing(Strip(val.content.v)) = "")
        /\ val.content.v # "" => val.result.error = FirstFailing(Strip(val.content.v))


\* A body that fires the spam heuristic and has more than 10% suspicious
\* characters, rejected for the suspicious characters
ContentAcceptedIffWitness ==
    /\ val.stage = "content" /\ val.pc = 1
    /\ val.content = PyStr(ContentPieces[1] \o ContentPieces[3] \o ContentPieces[3])
    /\ detect_spam_patterns(Strip(val.content.v))
    /\ val.result = Ret(FALSE, "Content contains too many suspicious characters")


(***************************************************************************)
(* SpecSpam: _detect_spam_patterns on texts at the edges of its rules: 20, *)
(* 21, 25 and 26 tokens with 4 to 6 copies of one token in either case, 20 *)
(* to 40 characters with 2 to 7 special ones, and up to three of a few     *)
(* spam phrases, whole, repeated, inside words and broken.                 *)
(***************************************************************************)
MaxPhrasePieces == 3

\* k copies of one token, in upper and lower case by turns, after n - k
\* tokens that differ from it and from one another
Tokens(n, k) ==
    Concat([i \in 1..n |-> IF i <= n - k THEN "t" \o Ch(LOWER, i) \o " "
                           ELSE IF i % 2 = 0 THEN "SPAM " ELSE "spam "])

\* one token of n characters, c of them special
Special(n, c) == Repeat("!", c) \o Repeat("a", n - c)

PhrasePieces == <<"Buy Now ", "act now ", "xclick herex ", "limited  time ", "plain words ">>

SpamInputs ==
    {Tokens(n, k) : n \in {20, 21, 25, 26}, k \in 4..6}
    \cup {Special(n, c) : n \in {20, 21, 40}, c \in {2, 3, 4, 6, 7}}
    \cup {TextOf(PhrasePieces, idx) : idx \in PieceSeqs(Len(PhrasePieces), MaxPhrasePieces)}
    \cup {Repeat("buy now ", 50)}

InitSpam ==
    /\ \E text \in SpamInputs :
          val = [stage |-> "spam", pc |-> 0, text |-> text, result |-> FALSE]
    /\ req = <<>> /\ now = 0 /\ san = Off /\ txt = Off

\* result = SecurityValidator._detect_spam_patterns(text)
DetectSpam ==
    /\ val.stage = "spam" /\ val.pc = 0
    /\ val' = [val EXCEPT !.pc = 1, !.result = detect_spam_patterns(val.text)]
    /\ UNCHANGED <<req, now, san, txt>>

NextSpam == DetectSpam

SpecSpam == InitSpam /\ [][NextSpam]_vars

\* Rule 1: more than 20 tokens, and some lower-cased token makes up more
\* than 20% of them
Repetitive(text) ==
    LET tokens == Split(Lower(text))
    IN  /\ Len(tokens) > 20
        /\ \E i \in 1..Len(tokens) :
              100 * Cardinality({j \in 1..Len(tokens) : tokens[j] = tokens[i]}) > 20 * Len(tokens)

\* Rule 2: more than 15% of the characters are special characters
Punctuated(text) == 100 * CountChars(text, SpecialCharSet) > 15 * Len(text)

\* Rule 3: two different spam phrases occur in the text, whatever their case
TwoPhrases(text) ==
    \E i, j \in 1..Len(SpamPhrases) :
        i # j /\ Contains(Lower(text), SpamPhrases[i]) /\ Contains(Lower(text), SpamPhrases[j])

\* C20: the spam heuristic fires if and only if the text has more than 20
\* tokens with the most frequent lower-cased token above 20% of them, or
\* more than 15% special characters, or at least 2 distinct spam phrases.
SpamIffRules ==
    (val.stage = "spam" /\ val.pc = 1) =>
        (val.result <=> (Repetitive(val.text) \/ Punctuated(val.text) \/ TwoPhrases(val.text)))

\* 21 tokens with 5 copies of one token in mixed case fire the heuristic by
\* the repetition rule alone
SpamIffRulesWitness ==
    /\ val.stage = "spam" /\ val.pc = 1
    /\ val.text = Tokens(21, 5)
    /\ val.result
    /\ ~Punctuated(val.text) /\ ~TwoPhrases(val.text)


(***************************************************************************)
(* SpecRank: extract_keywords and extract_key_phrases with their default   *)
(* limits (15 keywords, 20 keywords for the phrases, 8 phrases), on texts  *)
(* built from sentences, with the local variables of the two functions     *)
(* kept in the state.                                                      *)
(***************************************************************************)
MaxRankPieces == 3

RankPieces ==
    <<"Data models use data models and data. ",
      "Machine learning models like learning machine! ",
      "Big data helps quantum networks scale. ",
      "The price of data models is the price of learning? ",
      "UPPER Case-Words abc123 supercalifragilisticexpialidocious ok. ",
      "Our AI ML data wins big. ">>

\* The local variables of extract_keywords before it has run
NoKeywordLocals ==
    [words |-> <<>>, ranking |-> FALSE, doc_freq |-> <<>>, num_sentences |-> 0, idf |-> <<>>,
     class |-> <<>>, score |-> <<>>, boosted |-> <<>>, keywords |-> <<>>]

\* The local variables of extract_key_phrases before it has run
NoPhraseLocals == [keyword_set |-> {}, spans |-> <<>>, phrases |-> <<>>, result |-> <<>>]

\* The largest set of words of which every iteration order is tried
MaxOrderedWords == 3

Reverse(seq) == Tuple([i \in 1..Len(seq) |-> seq[Len(seq) + 1 - i]])

\* The set orders tried for a text: all of them for a set of at most
\* MaxOrderedWords words, and for a larger set the order of first occurrence,
\* its reverse and the same two orders turned by one word
RankOrders(text) ==
    LET first == Distinct(preprocess_text(text, StopWords))
        turned(seq) == SubSeq(seq, 2, Len(seq)) \o SubSeq(seq, 1, 1)
    IN  IF text = "" \/ Len(Strip(text)) < 50 \/ Len(preprocess_text(text, StopWords)) >= 10
        THEN {<<>>}
        ELSE IF Len(first) <= MaxOrderedWords THEN Orders(Range(first))
        ELSE {first, Reverse(first), turned(first), turned(Reverse(first))}

InitRank ==
    /\ \E idx \in PieceSeqs(Len(RankPieces), MaxRankPieces) :
          LET text == TextOf(RankPieces, idx)
          IN  \E rounding \in Roundings(text), set_order \in RankOrders(text) :
                 txt = [stage |-> "rank", pc |-> 0, text |-> text, rounding |-> rounding,
                        set_order |-> set_order, kw |-> NoKeywordLocals, ph |-> NoPhraseLocals]
    /\ req = <<>> /\ now = 0 /\ san = Off /\ val = Off

\* idf = math.log(num_sentences / doc_freq[word]) in millionths, or the
\* fallback branch that uses the tf score as it is
Idf(doc_freq, num_sentences) ==
    IF doc_freq > 0 THEN [fallback |-> FALSE, idf |-> LnMicro[num_sentences] - LnMicro[doc_freq]]
    ELSE [fallback |-> TRUE, idf |-> 0]

\* The local variables of extract_keywords(text) at its return
KeywordLocals(text, words, sentences, set_order, rounding) ==
    IF text = "" \/ Len(Strip(text)) < 50 \/ Len(words) < 10
    THEN [NoKeywordLocals EXCEPT !.words = words,
                                 !.keywords = extract_keywords(text, 15, set_order, rounding)]
    ELSE [words         |-> words,
          ranking       |-> TRUE,
          doc_freq      |-> [w \in Range(words) |-> DocFreq(SentenceWords(sentences), w)],
          num_sentences |-> NumSentences(sentences),
          idf           |-> [w \in Range(words) |->
                                Idf(DocFreq(SentenceWords(sentences), w), NumSentences(sentences))],
          class         |-> [w \in Range(words) |-> ScoreClass(w, words, SentenceWords(sentences))],
          score         |-> [w \in Range(words) |->
                                BoostedScore(ScoreClass(w, words, SentenceWords(sentences)),
                                             NumSentences(sentences))],
          boosted       |-> KeptWords(words),
          keywords      |-> extract_keywords(text, 15, set_order, rounding)]

\* kw = the locals of extract_keywords(text)
RunExtractKeywords ==
    /\ txt.stage = "rank" /\ txt.pc = 0
    /\ txt' = [txt EXCEPT !.pc = 1,
                          !.kw = KeywordLocals(txt.text, preprocess_text(txt.text, StopWords),
                                               SplitSentences(txt.text), txt.set_order,
                                               txt.rounding)]
    /\ UNCHANGED <<req, now, san, val>>


\* A span whose threshold of meaningful words is its whole length
SpanLocalsAllMeaningful(words, i, length, keyword_set, stop_words) ==
    LET phrase_words == SubSeq(words, i, i + length - 1)
        non_stop_count == Cardinality({k \in 1..length : phrase_words[k] \notin stop_words})
    IN  [phrase_words   |-> phrase_words,
         has_keyword    |-> \E k \in 1..length : phrase_words[k] \in keyword_set,
         non_stop_count |-> non_stop_count,
         enough         |-> non_stop_count >= length,
         passes         |-> /\ \E k \in 1..length : phrase_words[k] \in keyword_set
                            /\ non_stop_count >= length
                            /\ phrase_words[1] \notin stop_words
                            /\ phrase_words[length] \notin stop_words]

\* The local variables of one turn of the inner loop of extract_key_phrases,
\* for the span of length words from word i on: phrase_words, has_keyword,
\* non_stop_count, whether non_stop_count >= max(1, length // 2), and
\* whether the condition of the if holds
SpanLocals(words, i, length, keyword_set, stop_words) ==
    LET phrase_words == SubSeq(words, i, i + length - 1)
        non_stop_count == Cardinality({k \in 1..length : phrase_words[k] \notin stop_words})
        least == IF length \div 2 > 1 THEN length \div 2 ELSE 1
    IN  [phrase_words   |-> phrase_words,
         has_keyword    |-> \E k \in 1..length : phrase_words[k] \in keyword_set,
         non_stop_count |-> non_stop_count,
         enough         |-> non_stop_count >= least,
         passes         |-> /\ \E k \in 1..length : phrase_words[k] \in keyword_set
                            /\ non_stop_count >= least
                            /\ phrase_words[1] \notin stop_words
                            /\ phrase_words[length] \notin stop_words]

\* The spans the loops over i and length visit in the words of one sentence
SpansIn(words, keyword_set, stop_words) ==
    Flatten([i \in 1..(Len(words) - 1) |->
                Flatten([n \in 1..3 |->
                            IF i + n <= Len(words)
                            THEN <<SpanLocals(words, i, n + 1, keyword_set, stop_words)>>
                            ELSE <<>>])])

\* The spans visited in all the sentences of at least 20 characters
Spans(sentences, keyword_set) ==
    Flatten([i \in 1..Len(sentences) |->
                SpansIn(FindWords(Lower(sentences[i])), keyword_set, StopWords)])

\* The local variables of extract_key_phrases(text) at its return
PhraseLocals(text, keywords, set_order, rounding) ==
    IF text = "" \/ Len(Strip(text)) < 100 THEN NoPhraseLocals
    ELSE [keyword_set |-> Range(keywords),
          spans       |-> Spans(LongSentences(SplitSentences(text)), Range(keywords)),
          phrases     |-> CollectPhrases(LongSentences(SplitSentences(text)), Range(keywords)),
          result      |-> extract_key_phrases(text, 8, set_order, rounding)]

\* ph = the locals of extract_key_phrases(text)
RunExtractKeyPhrases ==
    /\ txt.stage = "rank" /\ txt.pc = 1
    /\ txt' = [txt EXCEPT !.pc = 2,
                          !.ph = PhraseLocals(txt.text,
                                              extract_keywords(txt.text, 20, txt.set_order, txt.rounding),
                                              txt.set_order, txt.rounding)]
    /\ UNCHANGED <<req, now, san, val>>

NextRank == RunExtractKeywords \/ RunExtractKeyPhrases

SpecRank == InitRank /\ [][NextRank]_vars

\* C21: for a text with at least 10 surviving tokens, every word that is
\* ranked, and so every word extract_keywords returns, occurs at least twice
\* among the surviving tokens or is longer than 6 letters.
KeywordsPassGate ==
    (txt.stage = "rank" /\ txt.pc >= 1 /\ Len(preprocess_text(txt.text, StopWords)) >= 10) =>
        \A w \in Range(txt.kw.keywords) \cup Range(txt.kw.boosted) :
            \/ Cardinality({i \in 1..Len(txt.kw.words) : txt.kw.words[i] = w}) >= 2
            \/ Len(w) > 6

\* A text of 10 tokens or more with a word that occurs once and has at most
\* 6 letters, which is not returned, beside a returned word that occurs once
KeywordsPassGateWitness ==
    /\ txt.stage = "rank" /\ txt.pc >= 1 /\ txt.kw.ranking
    /\ \E w \in Range(txt.kw.words) :
          Count(txt.kw.words, w) = 1 /\ Len(w) <= 6 /\ w \notin Range(txt.kw.keywords)
    /\ \E w \in Range(txt.kw.keywords) : Count(txt.kw.words, w) = 1


\* The words of the ranking: the surviving tokens that occur twice or have
\* more than 6 letters
Eligible == {w \in Range(txt.kw.words) : Count(txt.kw.words, w) >= 2 \/ Len(w) > 6}

\* The place of the first occurrence of w among the surviving tokens
FirstSeen(w) == Min({i \in 1..Len(txt.kw.words) : txt.kw.words[i] = w})

\* The rank the platform's arithmetic gives the score of w among the scores
\* that are equal to it in exact arithmetic
RoundedRank(w) ==
    IF txt.kw.class[w] \in DOMAIN txt.rounding THEN txt.rounding[txt.kw.class[w]] ELSE 0

\* The boosted score of a is greater than that of b
ScoresHigher(a, b) ==
    \/ txt.kw.score[a] > txt.kw.score[b]
    \/ txt.kw.score[a] = txt.kw.score[b] /\ RoundedRank(a) > RoundedRank(b)

\* The boosted scores of a and b are equal
ScoresEqual(a, b) == txt.kw.score[a] = txt.kw.score[b] /\ RoundedRank(a) = RoundedRank(b)

\* C22: extract_keywords returns the eligible words, up to 15 of them, in
\* non-increasing order of boosted score; of two words with equal boosted
\* score the one seen first in the token sequence comes first, and a word
\* left out ranks after every word returned.
KeywordsRanked ==
    (txt.stage = "rank" /\ txt.pc >= 1 /\ txt.kw.ranking) =>
        LET keywords == txt.kw.keywords
        IN  /\ Range(keywords) \subseteq Eligible
            /\ NoDuplicates(keywords)
            /\ Len(keywords) = IF Cardinality(Eligible) < 15 THEN Cardinality(Eligible) ELSE 15
            /\ \A i, j \in 1..Len(keywords) :
                  i < j => /\ ~ScoresHigher(keywords[j], keywords[i])
                           /\ ScoresEqual(keywords[i], keywords[j]) =>
                                 FirstSeen(keywords[i]) < FirstSeen(keywords[j])
            /\ \A w \in Eligible \ Range(keywords) :
                  \A k \in 1..Len(keywords) :
                      /\ ~ScoresHigher(w, keywords[k])
                      /\ ScoresEqual(w, keywords[k]) => FirstSeen(keywords[k]) < FirstSeen(w)

\* Keywords returned with, among them, two of equal score that is not 0, two
\* of score 0 and two of different scores
KeywordsRankedWitness ==
    /\ txt.stage = "rank" /\ txt.pc >= 1 /\ txt.kw.ranking
    /\ \E i, j \in 1..Len(txt.kw.keywords) :
          /\ i < j
          /\ ScoresEqual(txt.kw.keywords[i], txt.kw.keywords[j])
          /\ txt.kw.score[txt.kw.keywords[i]] > 0
    /\ \E i, j \in 1..Len(txt.kw.keywords) : ScoresHigher(txt.kw.keywords[i], txt.kw.keywords[j])
    /\ \E i, j \in 1..Len(txt.kw.keywords) :
          i < j /\ txt.kw.score[txt.kw.keywords[i]] = 0 /\ txt.kw.score[txt.kw.keywords[j]] = 0


\* w stands in the text as a whole word: no letter, digit or underscore
\* touches it on either side
WholeWordOf(w, text) ==
    \E i \in 1..Len(text) :
        /\ StartsAt(text, i, w)
        /\ i = 1 \/ Ch(text, i - 1) \notin WordSet
        /\ i + Len(w) > Len(text) \/ Ch(text, i + Len(w)) \notin WordSet

\* Every word of the sequence is a whole word of the text, has 3 to 20
\* lower-case letters and is no stop word
AllTokensOf(keywords, text) ==
    \A k \in 1..Len(keywords) :
        /\ \A i \in 1..Len(keywords[k]) : Ch(keywords[k], i) \in LowerSet
        /\ Len(keywords[k]) >= 3 /\ Len(keywords[k]) <= 20
        /\ keywords[k] \notin StopWords
        /\ WholeWordOf(keywords[k], text)

\* C23: every word extract_keywords returns is a surviving token of the
\* text: a whole word of the lower-cased text made of 3 to 20 lower-case
\* letters that is not a stop word.
KeywordsAreTokens ==
    (txt.stage = "rank" /\ txt.pc >= 1) => AllTokensOf(txt.kw.keywords, Lower(txt.text))

\* A text with a word in capitals, a word of 34 letters, a word of 2
\* letters, a word that holds digits and stop words: the word in capitals is
\* returned in lower case and none of the others is
KeywordsAreTokensWitness ==
    /\ txt.stage = "rank" /\ txt.pc >= 1
    /\ Contains(txt.text, "UPPER Case-Words abc123 supercalifragilisticexpialidocious ok.")
    /\ Contains(txt.text, " use ")
    /\ "upper" \in Range(txt.kw.keywords)
    /\ "words" \in Range(txt.kw.keywords)
    /\ Range(txt.kw.keywords) \cap {"UPPER", "abc", "ok", "use", "supercalifragilisticexpialidocious",
                                    "supercalifragilistic"} = {}


\* The pieces of the text between runs of . ! ? that hold more than white
\* space
NonEmptySentences(text) ==
    SelectSeq(Runs(text, {".", "!", "?"}), LAMBDA piece : \E i \in 1..Len(piece) : Ch(piece, i) \notin SpaceSet)

\* C26: in extract_keywords, for a text with at least 10 surviving tokens,
\* every surviving token has a document frequency from 1 to the number of
\* non-empty sentences; so the branch without IDF is never taken, no IDF is
\* negative, and a token that occurs in every non-empty sentence has score 0
\* whatever its frequency.
DocFreqWithinSentences ==
    (txt.stage = "rank" /\ txt.pc >= 1 /\ txt.kw.ranking) =>
        /\ txt.kw.num_sentences = Len(NonEmptySentences(txt.text))
        /\ \A w \in Range(txt.kw.words) :
              /\ txt.kw.doc_freq[w] >= 1
              /\ txt.kw.doc_freq[w] <= Len(NonEmptySentences(txt.text))
              /\ ~txt.kw.idf[w].fallback
              /\ txt.kw.idf[w].idf >= 0
              /\ txt.kw.doc_freq[w] = Len(NonEmptySentences(txt.text)) => txt.kw.score[w] = 0

\* A token that occurs 7 times, in each of the three sentences, has score 0
\* and is ranked after a token that occurs twice in one sentence
DocFreqWitness ==
    /\ txt.stage = "rank" /\ txt.pc >= 1 /\ txt.kw.ranking
    /\ txt.kw.num_sentences = 3
    /\ \E w, v \in Range(txt.kw.keywords) :
          /\ Count(txt.kw.words, w) = 7 /\ txt.kw.doc_freq[w] = 3 /\ txt.kw.score[w] = 0
          /\ Count(txt.kw.words, v) = 2 /\ txt.kw.doc_freq[v] = 1 /\ txt.kw.score[v] > 0


\* ceil(n / 2)
HalfUp(n) == (n + 1) \div 2

\* The conditions (a), (b) and (c) on the tokens of a span: one of them is a
\* keyword, at least ceil(length / 2) of them are no stop words, and neither
\* the first nor the last is a stop word
MeetsConditions(phrase_words, keyword_set) ==
    /\ Range(phrase_words) \cap keyword_set # {}
    /\ Len(SelectSeq(phrase_words, LAMBDA w : w \notin StopWords)) >= HalfUp(Len(phrase_words))
    /\ Head(phrase_words) \notin StopWords
    /\ phrase_words[Len(phrase_words)] \notin StopWords

\* C24: in extract_key_phrases a span of 2, 3 or 4 tokens of a sentence of
\* at least 20 characters is accepted as a candidate phrase, that is, its
\* phrase is in the list of candidates, if and only if it meets the
\* conditions (a), (b) and (c).
CandidatesAsSpecified ==
    (txt.stage = "rank" /\ txt.pc = 2) =>
        \A k \in 1..Len(txt.ph.spans) :
            (Join(txt.ph.spans[k].phrase_words, " ") \in Range(txt.ph.phrases))
                <=> MeetsConditions(txt.ph.spans[k].phrase_words, txt.ph.keyword_set)

\* The number of places of the document at which the phrase was accepted:
\* the spans whose tokens passed the conditions of the if and spell the
\* phrase
TimesAccepted(phrase) ==
    Cardinality({k \in 1..Len(txt.ph.spans) :
                    /\ txt.ph.spans[k].passes
                    /\ Join(txt.ph.spans[k].phrase_words, " ") = phrase})

\* keyword_density >= 0.5 of a phrase
DenseEnough(phrase) ==
    2 * Cardinality({k \in 1..Len(Split(phrase)) : Split(phrase)[k] \in txt.ph.keyword_set})
        >= Len(Split(phrase))

\* C25: a phrase of the candidates is kept in the ranking if and only if it
\* was accepted at two or more places of the document or at least half of
\* its tokens are keywords; fewer than 8 phrases returned means that the
\* ranking was returned whole.
KeptWhenAcceptedTwice ==
    (txt.stage = "rank" /\ txt.pc = 2 /\ Len(txt.ph.result) < 8) =>
        \A k \in 1..Len(txt.ph.phrases) :
            (txt.ph.phrases[k] \in Range(txt.ph.result))
                <=> (TimesAccepted(txt.ph.phrases[k]) >= 2 \/ DenseEnough(txt.ph.phrases[k]))

\* The first and the last token of the span are no stop words
EndsMeaningful(span) ==
    /\ span.phrase_words[1] \notin StopWords
    /\ span.phrase_words[Len(span.phrase_words)] \notin StopWords

\* C29: every visited span of 2, 3 or 4 tokens whose first and last tokens
\* are no stop words has at least ceil(length / 2) tokens that are no stop
\* words, and the threshold of the code, max(1, length // 2), accepts with
\* the condition on the ends exactly the spans that ceil(length / 2) accepts.
ThresholdsAgree ==
    (txt.stage = "rank" /\ txt.pc = 2) =>
        \A k \in 1..Len(txt.ph.spans) :
            LET span == txt.ph.spans[k]
            IN  /\ Len(span.phrase_words) \in 2..4
                /\ EndsMeaningful(span) => span.non_stop_count >= HalfUp(Len(span.phrase_words))
                /\ (span.enough /\ EndsMeaningful(span))
                       <=> (span.non_stop_count >= HalfUp(Len(span.phrase_words)) /\ EndsMeaningful(span))

\* A text with a span of 4 tokens of which only the two at the ends are no
\* stop words, a span of 3 tokens with a stop word in the middle, and a span
\* that passes the threshold of the code and ends in a stop word
ThresholdsAgreeWitness ==
    /\ txt.stage = "rank" /\ txt.pc = 2
    /\ \E k \in 1..Len(txt.ph.spans) :
          /\ txt.ph.spans[k].phrase_words = <<"models", "is", "the", "price">>
          /\ txt.ph.spans[k].non_stop_count = 2 /\ txt.ph.spans[k].passes
    /\ \E k \in 1..Len(txt.ph.spans) :
          /\ txt.ph.spans[k].phrase_words = <<"price", "of", "data">>
          /\ txt.ph.spans[k].non_stop_count = 2 /\ txt.ph.spans[k].passes
    /\ \E k \in 1..Len(txt.ph.spans) :
          /\ Len(txt.ph.spans[k].phrase_words) = 3
          /\ txt.ph.spans[k].non_stop_count = 1
          /\ txt.ph.spans[k].enough /\ ~txt.ph.spans[k].passes

\* The domain of the submission of a request, as text
SubmittedDomain(r) == ToStr(req[r].data.v["companyDomain"])

\* C27: in every record of the pipeline, which only a submission that passed
\* validation gets, the domain of the metadata and of the delivery block is
\* the submitted domain without its surrounding white space: the two
\* sanitizations neither alter nor filter it.
DomainAsSubmitted ==
    \A r \in Requests :
        HasRecord(r) =>
            /\ req[r].validation.ok
            /\ req[r].processed_data.metadata.company_domain = Strip(SubmittedDomain(r))
            /\ req[r].processed_data.payload.webhook_data.domain = Strip(SubmittedDomain(r))

\* A record of a submission whose domain has capital letters, a hyphen, a
\* digit and white space around it
DomainAsSubmittedWitness ==
    /\ HasRecord(1)
    /\ SubmittedDomain(1) = "\tSub-1.Example.COM\n"
    /\ req[1].processed_data.payload.webhook_data.domain = "Sub-1.Example.COM"

\* A field of a submission after the two sanitizations of the pipeline: the
\* stripped mode cut to max characters, then the escaped mode
SanitizedTwice(value, max) ==
    sanitize_text(Truncate(sanitize_text(ToStr(value), FALSE), max), TRUE)

\* C28: in every record of the pipeline each field is the submitted field
\* sanitized twice, in stripped mode with truncation and then in escaped
\* mode, and the summary, the keywords and the phrases are those of the body
\* delivered in that record.
AnalysisOfDeliveredBody ==
    \A r \in Requests :
        HasRecord(r) =>
            LET webhook_data == req[r].processed_data.payload.webhook_data
            IN  /\ webhook_data.summary = generate_summary(webhook_data.content, 3)
                /\ webhook_data.domain = SanitizedTwice(req[r].data.v["companyDomain"], MAX_DOMAIN_LENGTH)
                /\ webhook_data.title = SanitizedTwice(req[r].data.v["articleTitle"], MAX_TITLE_LENGTH)
                /\ webhook_data.content = SanitizedTwice(req[r].data.v["article"], MAX_ARTICLE_LENGTH)
                /\ webhook_data.keywords =
                      extract_keywords(webhook_data.content, 15, req[r].set_order, req[r].rounding)
                /\ webhook_data.phrases =
                      extract_key_phrases(webhook_data.content, 8, req[r].set_order, req[r].rounding)

\* A record whose delivered body differs from the body sanitized once, which
\* differs from the submitted body, and whose summary and keywords show the
\* escaping of the second sanitization
AnalysisOfDeliveredBodyWitness ==
    /\ HasRecord(1)
    /\ req[1].processed_data.content.body # Clean(req[1], "article")
    /\ Clean(req[1], "article") # SubmittedBody(1)
    /\ Contains(req[1].processed_data.content.body, "Tom &amp; Jerry learn it&#x27;s fine")
    /\ Contains(req[1].processed_data.content.summary, "&amp;")
    /\ "amp" \in Range(req[1].processed_data.content.keywords)
    /\ req[1].processed_data.content.phrases # <<>>

\* The handler of request r has returned a response
Answered(r) == req[r].response # Unset

\* C30: every request that arrived ends with a response, and with one only:
\* the handler does nothing after it; it posts to the webhook at most once,
\* so that a failed call (a status other than 200, a timeout, a connection
\* error) is not tried again; and the response after a failed call is a 200
\* with success = false and the processed record.
OneResponseOneAttempt ==
    /\ [](\A r \in Requests :
             /\ req[r].posts <= 1
             /\ Answered(r) <=> req[r].pc = "done"
             /\ (Answered(r) /\ req[r].webhook \in FailedOutcomes) =>
                   /\ req[r].posts = 1
                   /\ req[r].response.status = 200
                   /\ req[r].response.body.success = FALSE
                   /\ req[r].response.body.processed_data = req[r].processed_data
                   /\ req[r].processed_data.payload = req[r].posted)
    /\ [][\A r \in Requests : Answered(r) => req'[r] = req[r]]_vars
    /\ \A r \in Requests : (req[r].pc # "idle") ~> Answered(r)

\* One request was answered after its webhook call timed out, the other
\* after its call was refused with status 500, each having posted once
OneResponseOneAttemptWitness ==
    /\ req # <<>>
    /\ \E r, o \in Requests :
          /\ Answered(r) /\ req[r].webhook = "Timeout" /\ req[r].posts = 1
          /\ req[r].response.body.message = "Failed to send to n8n: Timeout"
          /\ Answered(o) /\ req[o].webhook = "500" /\ req[o].posts = 1
          /\ ~req[o].response.body.success

=============================================================================
